---- MODULE Spec2Model ----
(***************************************************************************)
(* The sp_ai widget: payload normalization (normalize_extra_data and the   *)
(* block extractors), the inbound-event schema, the reducer                *)
(* (apply_inbound_event) and the host-facing handlers (activate,           *)
(* handle_events).                                                         *)
(*                                                                         *)
(* JSON values are tagged records, so that a field holding a value of the  *)
(* wrong type is a value of the model like any other.                      *)
(***************************************************************************)
EXTENDS Integers, Sequences, FiniteSets, TLC

(***************************************************************************)
(* Bounds of the model.                                                    *)
(***************************************************************************)
\* longest batch of events the host hands to handle_events in one call
MaxBatch == 3
\* longest output text the model lets append_output build
MaxOutLen == 2

(***************************************************************************)
(* JSON scalars: [t: type tag, s: text, n: integer].  A number that is not *)
(* an integer is n + 1/2, written with s = "half".                         *)
(***************************************************************************)
JUndef == [t |-> "undefined", s |-> "", n |-> 0]
JNull == [t |-> "null", s |-> "", n |-> 0]
JStr(x) == [t |-> "string", s |-> x, n |-> 0]
JNum(k) == [t |-> "number", s |-> "", n |-> k]
JHalf(k) == [t |-> "number", s |-> "half", n |-> k]
JBool(b) == [t |-> "boolean", s |-> "", n |-> IF b THEN 1 ELSE 0]
JObj == [t |-> "object", s |-> "", n |-> 0]

\* typeof v === "string", and so on
IsString(v) == v.t = "string"
IsNumber(v) == v.t = "number"
IsBoolean(v) == v.t = "boolean"
\* v === undefined || v === null, the test of the ?? operator
IsNullish(v) == v.t \in {"undefined", "null"}
\* the truthiness test of || and &&
IsTruthy(v) ==
    CASE v.t = "undefined" -> FALSE
      [] v.t = "null" -> FALSE
      [] v.t = "string" -> v.s # ""
      [] v.t = "number" -> ~(v.n = 0 /\ v.s = "")
      [] v.t = "boolean" -> v.n = 1
      [] OTHER -> TRUE
\* a ?? b
Coalesce(a, b) == IF IsNullish(a) THEN b ELSE a
\* a || b
OrElse(a, b) == IF IsTruthy(a) THEN a ELSE b

DigitText == <<"0", "1", "2", "3", "4", "5", "6", "7", "8", "9">>
RECURSIVE NatText(_)
NatText(k) == IF k < 10 THEN DigitText[k + 1] ELSE NatText(k \div 10) \o DigitText[(k % 10) + 1]
\* String(v)
ToText(v) ==
    CASE v.t = "string" -> v.s
      [] v.t = "undefined" -> "undefined"
      [] v.t = "null" -> "null"
      [] v.t = "boolean" -> (IF v.n = 1 THEN "true" ELSE "false")
      [] v.t = "number" ->
           (IF v.n < 0 THEN "-" \o NatText(0 - v.n) ELSE NatText(v.n))
               \o (IF v.s = "half" THEN ".5" ELSE "")
      [] OTHER -> "[object Object]"

(***************************************************************************)
(* Text as characters.  TLC concatenates strings but cannot take them      *)
(* apart, so the operations that look inside a text (trim, toLowerCase)    *)
(* work on its spelling, a sequence of one-character strings, looked up in *)
(* the vocabulary of the model.                                            *)
(***************************************************************************)
RECURSIVE Join(_)
Join(q) == IF q = <<>> THEN "" ELSE q[1] \o Join(Tail(q))

Spellings ==
    { <<>>, <<" ">>,
      <<"o", "k">>, <<"O", "K">>, <<" ", "o", "k", " ">>, <<"O", "k">>, <<"o", "K">>,
      <<"C", "o", "m", "p", "l", "e", "t", "e", "d">>,
      <<"d", "o", "n", "e">>, <<"D", "o", "n", "e">>,
      <<"f", "a", "i", "l", "e", "d">>, <<"F", "a", "i", "l", "e", "d">>,
      <<"e", "r", "r", "o", "r">>,
      <<"r", "u", "n", "n", "i", "n", "g">>,
      <<"q", "u", "e", "u", "e", "d">>, <<"t", "o", "d", "o">>,
      <<"p", "e", "n", "d", "i", "n", "g">>,
      <<"w", "a", "t">>, <<" ", "w", "a", "t">>,
      <<"s", "1">>, <<" ", "s", "1", " ">>, <<"s", "2">>,
      <<"t", "1">>, <<"[", "x", "]", " ", "t", "1">>, <<"[", " ", "]", " ", "t", "2">>,
      <<"t", "2">>, <<"[", "x", "]">>, <<"n", "o", "b", "o", "x">>,
      <<"s", "u", "c", "c", "e", "s", "s">>,
      <<"S", "u", "c", "c", "e", "s", "s">>,
      <<"C", "O", "M", "P", "L", "E", "T", "E", "D">>,
      <<"c", "o", "m", "p", "l", "e", "t", "e", "d">>,
      <<"c", "o", "m", "p", "l", "e", "t", "e">>,
      <<"E", "R", "R", "O", "R">>,
      <<" ", "F", "a", "i", "l", "e", "d", " ">>,
      <<"f", "a", "i", "l", "u", "r", "e">>,
      <<"R", "U", "N", "N", "I", "N", "G">>,
      <<"i", "n", "_", "p", "r", "o", "g", "r", "e", "s", "s">>,
      <<"I", "n", "-", "P", "r", "o", "g", "r", "e", "s", "s">>,
      <<"i", "n", "-", "p", "r", "o", "g", "r", "e", "s", "s">>,
      <<"s", "t", "a", "r", "t", "e", "d">>,
      <<"q", "u", "e", "u", "e">>,
      <<"P", "e", "n", "d", "i", "n", "g">>,
      <<"a", "b", "o", "r", "t", "e", "d">>,
      <<"C", "A", "N", "C", "E", "L", "E", "D">>,
      <<"c", "a", "n", "c", "e", "l", "e", "d">>,
      <<"c", "a", "n", "c", "e", "l", "l", "e", "d">> }

\* the characters of a text of the vocabulary; a text outside it is opaque
\* (one symbol that is neither blank nor a letter)
SpellingOf ==
    [x \in {Join(q) : q \in Spellings} |-> CHOOSE q \in Spellings : Join(q) = x]
Spell(x) == IF x \in DOMAIN SpellingOf THEN SpellingOf[x] ELSE <<x>>

IsBlank(c) == c \in {" ", "\t", "\n"}
RECURSIVE TrimLeft(_)
TrimLeft(q) == IF q # <<>> /\ IsBlank(q[1]) THEN TrimLeft(Tail(q)) ELSE q
RECURSIVE TrimRight(_)
TrimRight(q) ==
    IF q # <<>> /\ IsBlank(q[Len(q)]) THEN TrimRight(SubSeq(q, 1, Len(q) - 1)) ELSE q
\* x.trim()
Trim(x) == Join(TrimRight(TrimLeft(Spell(x))))

LowerCase ==
    [A |-> "a", B |-> "b", C |-> "c", D |-> "d", E |-> "e", F |-> "f", G |-> "g",
     H |-> "h", I |-> "i", J |-> "j", K |-> "k", L |-> "l", M |-> "m", N |-> "n",
     O |-> "o", P |-> "p", Q |-> "q", R |-> "r", S |-> "s", T |-> "t", U |-> "u",
     V |-> "v", W |-> "w", X |-> "x", Y |-> "y", Z |-> "z"]
LowerChar(c) == IF c \in DOMAIN LowerCase THEN LowerCase[c] ELSE c
\* x.toLowerCase()
ToLowerCase(x) == LET q == Spell(x) IN Join([i \in 1..Len(q) |-> LowerChar(q[i])])

(***************************************************************************)
(* The enums of the schemas.                                               *)
(***************************************************************************)
StatusEnum ==
    {"pending", "running", "ok", "error", "aborted", "denied",
     "approval_requested", "approval_responded"}
KindEnum ==
    {"thinking", "tool", "final", "error", "plan", "decision", "ask", "budget",
     "policy", "subagent_group"}
DisplayEnum == {"card_only", "card_with_caption"}

(***************************************************************************)
(* Payload shapes.  An object is a record of the fields the code reads; a  *)
(* field the payload does not carry is JUndef, which is what reading it    *)
(* gives in the code.  A value of another type in the place of an object   *)
(* has the tag of its type and carries no field.  An array is              *)
(* [t |-> "array", items |-> the elements].                                *)
(***************************************************************************)
NoList == [t |-> "undefined", items |-> <<>>]
List(q) == [t |-> "array", items |-> q]
\* a value that is no array where an array is read
NotAList(tag) == [t |-> tag, items |-> <<>>]
\* Array.isArray(a)
IsArray(a) == a.t = "array"

\* one agent of a subagent_group block (sp_ai_subagent_schema)
Agent ==
    [t |-> "object", type |-> JUndef, description |-> JUndef, status |-> JUndef,
     toolCount |-> JUndef, totalTokens |-> JUndef, durationMs |-> JUndef,
     agentURL |-> JUndef, model |-> JUndef, error |-> JUndef]

\* one task of a background_tasks block (sp_ai_background_task_schema)
Task ==
    [t |-> "object", id |-> JUndef, description |-> JUndef, command |-> JUndef,
     status |-> JUndef, runtimeSec |-> JUndef, outputPreview |-> JUndef,
     exitCode |-> JUndef, error |-> JUndef]

\* one step of a structured plan block, one item of a structured todo block
Step == [t |-> "object", step |-> JUndef, status |-> JUndef]
Item == [t |-> "object", text |-> JUndef, checked |-> JUndef]

\* a content block; raw is its JSON text, what JSON.stringify(block, null, 2) gives;
\* items holds scalars (a legacy list) or Step/Item records (a structured one)
Block ==
    [t |-> "object", raw |-> "{}", kind |-> JUndef, title |-> JUndef, text |-> JUndef,
     code |-> JUndef, diff |-> JUndef, language |-> JUndef, channel |-> JUndef,
     agents |-> NoList, tasks |-> NoList, steps |-> NoList, items |-> NoList,
     rows |-> NoList, columns |-> NoList, has_json |-> FALSE, json |-> JUndef,
     used |-> JUndef, limit |-> JUndef, unit |-> JUndef, breakdown |-> NoList,
     entries |-> NoList, tree |-> JUndef, blocks |-> NoList]
\* an element of turn.blocks that is no object
NotABlock(tag) == [Block EXCEPT !.t = tag, !.raw = tag]

NoTool == [t |-> "undefined", name |-> JUndef, argsText |-> JUndef]
Tool == [NoTool EXCEPT !.t = "object"]
NoParallel ==
    [t |-> "undefined", groupId |-> JUndef, index |-> JUndef, count |-> JUndef,
     hasPrev |-> JUndef, hasNext |-> JUndef]
Parallel == [NoParallel EXCEPT !.t = "object"]

NoTurn ==
    [t |-> "undefined", kind |-> JUndef, status |-> JUndef, title |-> JUndef,
     subtitle |-> JUndef, output |-> JUndef, tool |-> NoTool, parallel |-> NoParallel,
     blocks |-> NoList]
Turn == [NoTurn EXCEPT !.t = "object"]

\* extra_data: {} is ExtraData; NotExtraData(tag) is null, undefined, a text, a number
ExtraData ==
    [t |-> "object", version |-> JUndef, display |-> JUndef, title |-> JUndef,
     caption |-> JUndef, status |-> JUndef, tool |-> JUndef, input |-> JUndef,
     output |-> JUndef, turn |-> NoTurn]
NotExtraData(tag) == [ExtraData EXCEPT !.t = tag]

(***************************************************************************)
(* Schema predicates: z.optional(z.string()) and friends.                  *)
(***************************************************************************)
OptString(v) == v.t \in {"undefined", "string"}
OptNumber(v) == v.t \in {"undefined", "number"}
\* z.int().check(z.nonnegative())
NonNegInt(v) == v.t = "number" /\ v.s = "" /\ v.n >= 0
OptNonNegInt(v) == v.t = "undefined" \/ NonNegInt(v)
AllItems(q, P(_)) == \A i \in 1..Len(q) : P(q[i])

\* parts.join(sep)
RECURSIVE JoinWith(_, _)
JoinWith(q, sep) ==
    IF q = <<>> THEN ""
    ELSE IF Len(q) = 1 THEN q[1]
    ELSE q[1] \o sep \o JoinWith(Tail(q), sep)

(***************************************************************************)
(* Number formatting.  A quantity is given as an integer count of its      *)
(* smallest unit; (n / d).toFixed(1) rounds to the nearest tenth.          *)
(***************************************************************************)
ToFixed1(n, d) ==
    LET tenths == (n * 20 + d) \div (2 * d)
    IN NatText(tenths \div 10) \o "." \o NatText(tenths % 10)
ToFixed0(n, d) == NatText((n * 2 + d) \div (2 * d))

\* a format that keeps the tenth of a second up to a minute
format_duration_ms_tenths(duration_ms) ==
    IF duration_ms < 0 THEN ""
    ELSE IF duration_ms < 1000 THEN NatText(duration_ms) \o "ms"
    ELSE IF duration_ms < 60000 THEN ToFixed1(duration_ms, 1000) \o "s"
    ELSE NatText(duration_ms \div 60000) \o "m "
             \o ToFixed0(duration_ms % 60000, 1000) \o "s"

format_duration_ms(duration_ms) ==
    IF duration_ms < 0 THEN ""
    ELSE IF duration_ms < 1000 THEN NatText(duration_ms) \o "ms"
    ELSE IF duration_ms < 60000
    THEN (IF duration_ms < 10000 THEN ToFixed1(duration_ms, 1000)
          ELSE ToFixed0(duration_ms, 1000)) \o "s"
    ELSE NatText(duration_ms \div 60000) \o "m "
             \o ToFixed0(duration_ms % 60000, 1000) \o "s"

format_runtime_sec(runtime_sec) ==
    IF runtime_sec < 0 THEN ""
    ELSE IF runtime_sec < 60
    THEN (IF runtime_sec < 10 THEN ToFixed1(runtime_sec, 1) ELSE NatText(runtime_sec)) \o "s"
    ELSE NatText(runtime_sec \div 60) \o "m " \o NatText(runtime_sec % 60) \o "s"

format_tokens(tokens) ==
    IF tokens < 0 THEN ""
    ELSE IF tokens >= 1000000 THEN ToFixed1(tokens, 1000000) \o "M tok"
    ELSE IF tokens >= 1000 THEN ToFixed1(tokens, 1000) \o "k tok"
    ELSE NatText(tokens) \o " tok"

(***************************************************************************)
(* Status folding.                                                         *)
(***************************************************************************)
\* a folding that compares the trimmed text as it is spelled
normalize_subagent_status_exact(raw_status) ==
    LET raw == Trim(raw_status)
    IN CASE raw \in {"ok", "success", "completed", "complete"} ->
              [status |-> "ok", label |-> "OK"]
         [] raw \in {"error", "failed", "failure"} -> [status |-> "error", label |-> "Error"]
         [] raw \in {"running", "in_progress", "in-progress", "started"} ->
              [status |-> "running", label |-> "Running"]
         [] OTHER -> [status |-> "unknown", label |-> IF raw = "" THEN "Unknown" ELSE raw]

normalize_subagent_status(raw_status) ==
    LET raw == Trim(raw_status)
        st == ToLowerCase(raw)
    IN CASE st \in {"ok", "success", "completed", "complete"} ->
              [status |-> "ok", label |-> "OK"]
         [] st \in {"error", "failed", "failure"} -> [status |-> "error", label |-> "Error"]
         [] st \in {"running", "in_progress", "in-progress", "started"} ->
              [status |-> "running", label |-> "Running"]
         [] OTHER -> [status |-> "unknown", label |-> IF raw = "" THEN "Unknown" ELSE raw]

normalize_background_task_status(raw_status) ==
    LET raw == Trim(raw_status)
        st == ToLowerCase(raw)
    IN CASE st \in {"ok", "success", "completed", "complete"} ->
              [status |-> "ok", label |-> "OK"]
         [] st \in {"error", "failed", "failure"} -> [status |-> "error", label |-> "Error"]
         [] st \in {"running", "in_progress", "in-progress", "started"} ->
              [status |-> "running", label |-> "Running"]
         [] st \in {"pending", "queued", "queue"} -> [status |-> "pending", label |-> "Pending"]
         [] st \in {"aborted", "canceled", "cancelled"} ->
              [status |-> "aborted", label |-> "Aborted"]
         [] OTHER -> [status |-> "unknown", label |-> IF raw = "" THEN "Unknown" ELSE raw]

normalize_plan_step_status(raw_status) ==
    LET raw == Trim(raw_status)
        st == ToLowerCase(raw)
    IN CASE st \in {"ok", "success", "completed", "complete", "done"} ->
              [status |-> "ok", label |-> "Done"]
         [] st \in {"error", "failed", "failure"} -> [status |-> "error", label |-> "Error"]
         [] st \in {"running", "in_progress", "in-progress", "started"} ->
              [status |-> "running", label |-> "In progress"]
         [] st \in {"pending", "queued", "queue", "todo"} ->
              [status |-> "pending", label |-> "Todo"]
         [] OTHER -> [status |-> "unknown", label |-> IF raw = "" THEN "" ELSE raw]

default_title_for_turn_kind(kind) ==
    CASE kind = JStr("subagent_group") -> "Subagents"
      [] kind = JStr("tool") -> "Tool"
      [] kind = JStr("assistant") -> "Assistant"
      [] OTHER -> "Agent output"

(***************************************************************************)
(* The specialized extractors.  Each scans the whole of turn.blocks and    *)
(* returns its groups and the indexes it consumed (0-based, as in the      *)
(* code).                                                                  *)
(***************************************************************************)
\* Array.isArray(extra_data.turn?.blocks) ? extra_data.turn?.blocks : []
BlocksOf(extra_data) ==
    IF IsArray(extra_data.turn.blocks) THEN extra_data.turn.blocks.items ELSE <<>>

\* the positions 1..Len(q) in order
Positions(q) == [i \in 1..Len(q) |-> i]

sp_ai_subagent_schema(a) ==
    /\ a.t = "object"
    /\ OptString(a.type) /\ OptString(a.description) /\ OptString(a.status)
    /\ OptNonNegInt(a.toolCount) /\ OptNonNegInt(a.totalTokens)
    /\ OptNonNegInt(a.durationMs)
    /\ OptString(a.agentURL) /\ OptString(a.model) /\ OptString(a.error)

sp_ai_subagent_group_block_schema(b) ==
    /\ b.t = "object"
    /\ b.kind = JStr("subagent_group")
    /\ OptString(b.title)
    /\ \/ b.agents.t = "undefined"
       \/ IsArray(b.agents) /\ AllItems(b.agents.items, sp_ai_subagent_schema)
    /\ OptString(b.text)

\* the agents.map(...) callback of normalize_subagent_groups
SubagentTemplate(agent) ==
    LET st == normalize_subagent_status(Coalesce(agent.status, JStr("")).s)
        type == IF IsNullish(agent.type) THEN "" ELSE Trim(agent.type.s)
        tools ==
            IF agent.toolCount.t = "undefined" THEN <<>>
            ELSE <<NatText(agent.toolCount.n) \o " tool"
                     \o (IF agent.toolCount.n = 1 THEN "" ELSE "s")>>
        tok ==
            IF agent.totalTokens.t = "undefined"
                  \/ format_tokens(agent.totalTokens.n) = ""
            THEN <<>> ELSE <<format_tokens(agent.totalTokens.n)>>
        dur ==
            IF agent.durationMs.t = "undefined"
                  \/ format_duration_ms(agent.durationMs.n) = ""
            THEN <<>> ELSE <<format_duration_ms(agent.durationMs.n)>>
        model ==
            IF agent.model.t # "undefined" /\ Trim(agent.model.s) # ""
            THEN <<Trim(agent.model.s)>> ELSE <<>>
    IN [type |-> IF type # "" THEN type ELSE "subagent",
        description |-> Coalesce(agent.description, JStr("")).s,
        status |-> st.status,
        status_label |-> st.label,
        meta_line |-> JoinWith(tools \o tok \o dur \o model, " · "),
        agentURL |-> Coalesce(agent.agentURL, JStr("")).s,
        error |-> Coalesce(agent.error, JStr("")).s]

\* a consumer that takes every block that parses, empty or not
SubagentConsumes_any(b) == sp_ai_subagent_group_block_schema(b)
\* the block is taken as a subagent group: it parses and is not empty
SubagentConsumes(b) ==
    /\ sp_ai_subagent_group_block_schema(b)
    /\ ~(/\ (IF IsArray(b.agents) THEN b.agents.items ELSE <<>>) = <<>>
         /\ Coalesce(b.text, JStr("")).s = "")

\* a section title that takes the title of the first group of several
SectionTitle_first(groups, fallback) ==
    IF Len(groups) >= 1 /\ Trim(groups[1].title) # "" THEN groups[1].title ELSE fallback

SectionTitle(groups, fallback) ==
    IF Len(groups) = 1 /\ Trim(groups[1].title) # "" THEN groups[1].title ELSE fallback

\* the for loop over blocks.entries() that the four extractors share: the
\* positions of the blocks that Takes consumes, the group Group makes of each
\* (with groups.length at the time of the push) and the 0-based indexes
\* added to skip_block_indexes
Collect(blocks, taken, Group(_, _)) ==
    [groups |-> [g \in 1..Len(taken) |-> Group(blocks[taken[g]], g - 1)],
     skip_block_indexes |-> {taken[g] - 1 : g \in 1..Len(taken)}]
Scan(blocks, Takes(_), Group(_, _)) ==
    Collect(blocks, SelectSeq(Positions(blocks), LAMBDA i : Takes(blocks[i])), Group)

\* groups.push({title, agents, fallback_text})
SubagentGroup(b, group_index) ==
    [title |-> Coalesce(b.title, JStr("")).s,
     agents |-> IF IsArray(b.agents)
                THEN [k \in 1..Len(b.agents.items) |-> SubagentTemplate(b.agents.items[k])]
                ELSE <<>>,
     fallback_text |-> Coalesce(b.text, JStr("")).s]

\* the return statement of normalize_subagent_groups
SubagentResult(turn_kind, r) ==
    [turn_kind |-> turn_kind,
     turn_kind_label |->
         IF turn_kind = JStr("") THEN "" ELSE default_title_for_turn_kind(turn_kind),
     subagent_section_title |-> SectionTitle(r.groups, "Subagents"),
     subagent_groups |-> r.groups,
     skip_block_indexes |-> r.skip_block_indexes]

normalize_subagent_groups(extra_data) ==
    SubagentResult(Coalesce(extra_data.turn.kind, JStr("")),
                   Scan(BlocksOf(extra_data), SubagentConsumes, SubagentGroup))

sp_ai_background_task_schema(task) ==
    /\ task.t = "object"
    /\ OptString(task.id) /\ OptString(task.description) /\ OptString(task.command)
    /\ OptString(task.status) /\ OptNumber(task.runtimeSec)
    /\ OptString(task.outputPreview) /\ OptNumber(task.exitCode) /\ OptString(task.error)

sp_ai_background_tasks_block_schema(b) ==
    /\ b.t = "object"
    /\ b.kind \in {JStr("background_tasks"), JStr("bash_tasks")}
    /\ OptString(b.title)
    /\ \/ b.tasks.t = "undefined"
       \/ IsArray(b.tasks) /\ AllItems(b.tasks.items, sp_ai_background_task_schema)

\* the raw_tasks.map(...) callback of normalize_background_tasks
BackgroundTaskTemplate(task, task_index) ==
    LET text(v) == IF IsString(v) THEN v.s ELSE ""
        st == normalize_background_task_status(text(task.status))
        rt ==
            IF IsNumber(task.runtimeSec) /\ format_runtime_sec(task.runtimeSec.n) # ""
            THEN <<format_runtime_sec(task.runtimeSec.n)>> ELSE <<>>
        exit ==
            IF IsNumber(task.exitCode) THEN <<"exit " \o ToText(task.exitCode)>> ELSE <<>>
    IN [task_index |-> task_index,
        description |-> text(task.description),
        command |-> text(task.command),
        status |-> st.status,
        status_label |-> st.label,
        meta_line |-> JoinWith(rt \o exit, " · "),
        has_output_preview |-> text(task.outputPreview) # "",
        output_preview |-> text(task.outputPreview),
        error |-> text(task.error)]

\* the tasks of a block after the .filter(...) that drops the empty ones
BackgroundTasksOf(b) ==
    LET raw_tasks == IF IsArray(b.tasks) THEN b.tasks.items ELSE <<>>
        tasks == [k \in 1..Len(raw_tasks) |-> BackgroundTaskTemplate(raw_tasks[k], k - 1)]
    IN SelectSeq(tasks, LAMBDA task :
           task.command # "" \/ task.description # "" \/ task.has_output_preview
               \/ task.error # "")

BackgroundConsumes(b) ==
    sp_ai_background_tasks_block_schema(b) /\ BackgroundTasksOf(b) # <<>>

\* a push that gives every group the number 0
BackgroundGroup_unnumbered(b, group_index) ==
    [group_index |-> 0,
     title |-> Coalesce(b.title, JStr("")).s,
     tasks |-> BackgroundTasksOf(b)]

\* groups.push({group_index, title, tasks})
BackgroundGroup(b, group_index) ==
    [group_index |-> group_index,
     title |-> Coalesce(b.title, JStr("")).s,
     tasks |-> BackgroundTasksOf(b)]

\* the return statement of normalize_background_tasks
BackgroundResult(r) ==
    [background_tasks_section_title |-> SectionTitle(r.groups, "Background tasks"),
     background_task_groups |-> r.groups,
     skip_block_indexes |-> r.skip_block_indexes]

normalize_background_tasks(extra_data) ==
    BackgroundResult(Scan(BlocksOf(extra_data), BackgroundConsumes, BackgroundGroup))

\* the structured plan block: kind "plan", a steps array of {step, status?}
sp_ai_plan_v2_block_schema(b) ==
    /\ b.t = "object"
    /\ b.kind = JStr("plan")
    /\ OptString(b.title)
    /\ IsArray(b.steps)
    /\ AllItems(b.steps.items, LAMBDA row :
           row.t = "object" /\ IsString(row.step) /\ OptString(row.status))

\* the structured todo block: kind "todo", an items array of {text, checked?}
sp_ai_todo_v2_block_schema(b) ==
    /\ b.t = "object"
    /\ b.kind = JStr("todo")
    /\ OptString(b.title)
    /\ IsArray(b.items)
    /\ AllItems(b.items.items, LAMBDA row :
           row.t = "object" /\ IsString(row.text)
               /\ row.checked.t \in {"undefined", "boolean"})

\* String(rec.kind || "") of the legacy branches
LegacyKind(b) == IF b.t = "object" THEN ToText(OrElse(b.kind, JStr(""))) ELSE ""
\* Array.isArray(rec.items) ? rec.items : []
LegacyItems(b) == IF b.t = "object" /\ IsArray(b.items) THEN b.items.items ELSE <<>>

\* the steps of a block: the structured branch when the block parses, else the
\* legacy list; <<>> when the code moves on without a group
\* steps that keep the blank ones
PlanStepsOf_keep_blank(b) ==
    IF sp_ai_plan_v2_block_schema(b)
    THEN LET rows == b.steps.items
         IN [k \in 1..Len(rows) |->
                LET st == normalize_plan_step_status(
                              ToText(Coalesce(rows[k].status, JStr(""))))
                IN [step_index |-> k - 1,
                    step |-> Trim(ToText(Coalesce(rows[k].step, JStr("")))),
                    status |-> st.status,
                    status_label |-> st.label]]
    ELSE <<>>

PlanStepsOf(b) ==
    IF sp_ai_plan_v2_block_schema(b)
    THEN LET rows == b.steps.items
             steps ==
                 [k \in 1..Len(rows) |->
                     LET st == normalize_plan_step_status(
                                   ToText(Coalesce(rows[k].status, JStr(""))))
                     IN [step_index |-> k - 1,
                         step |-> Trim(ToText(Coalesce(rows[k].step, JStr("")))),
                         status |-> st.status,
                         status_label |-> st.label]]
         IN SelectSeq(steps, LAMBDA row : row.step # "")
    ELSE IF LegacyKind(b) # "plan" THEN <<>>
    ELSE LET raw_items == LegacyItems(b)
             items ==
                 SelectSeq([k \in 1..Len(raw_items) |->
                               IF IsString(raw_items[k]) THEN Trim(raw_items[k].s) ELSE ""],
                           LAMBDA x : x # "")
         IN [k \in 1..Len(items) |->
                [step_index |-> k - 1, step |-> items[k], status |-> "unknown",
                 status_label |-> ""]]

\* the block yields steps
PlanConsumes(b) == PlanStepsOf(b) # <<>>

\* groups.push({group_index, title, steps})
PlanGroup(b, group_index) ==
    [group_index |-> group_index,
     title |-> IF IsString(b.title) THEN b.title.s ELSE "",
     steps |-> PlanStepsOf(b)]

\* the return statement of normalize_plan_blocks
PlanResult(r) ==
    [plan_section_title |-> SectionTitle(r.groups, "Plan"),
     plan_groups |-> r.groups,
     skip_block_indexes |-> r.skip_block_indexes]

normalize_plan_blocks(extra_data) ==
    PlanResult(Scan(BlocksOf(extra_data), PlanConsumes, PlanGroup))

\* /^\s*\[( |x|X)\]\s+([\s\S]*)$/ on the trimmed text: the box and what follows it
MatchBox(q) ==
    IF /\ Len(q) >= 4
       /\ q[1] = "[" /\ q[2] \in {" ", "x", "X"} /\ q[3] = "]"
       /\ IsBlank(q[4])
    THEN [ok |-> TRUE, checked |-> LowerChar(q[2]) = "x",
          text |-> Join(TrimRight(TrimLeft(SubSeq(q, 5, Len(q)))))]
    ELSE [ok |-> FALSE, checked |-> FALSE, text |-> ""]
TodoMatch(raw) == MatchBox(TrimRight(TrimLeft(Spell(raw))))

\* one item of a legacy todo list: {item_index, text, checked} of its match
LegacyTodoItem(m, item_index) ==
    [item_index |-> item_index, text |-> m.text, checked |-> m.checked]

TodoItemsOf(b) ==
    IF sp_ai_todo_v2_block_schema(b)
    THEN SelectSeq([k \in 1..Len(b.items.items) |->
                       [item_index |-> k - 1,
                        text |-> Trim(ToText(Coalesce(b.items.items[k].text, JStr("")))),
                        checked |-> b.items.items[k].checked = JBool(TRUE)]],
                   LAMBDA row : row.text # "")
    ELSE IF LegacyKind(b) # "todo" THEN <<>>
    ELSE SelectSeq([k \in 1..Len(LegacyItems(b)) |->
                       LegacyTodoItem(IF IsString(LegacyItems(b)[k])
                                      THEN TodoMatch(LegacyItems(b)[k].s)
                                      ELSE MatchBox(<<>>),
                                      k - 1)],
                   LAMBDA row : row.text # "")

\* the block yields items
TodoConsumes(b) == TodoItemsOf(b) # <<>>

\* groups.push({group_index, title, items})
TodoGroup(b, group_index) ==
    [group_index |-> group_index,
     title |-> IF IsString(b.title) THEN b.title.s ELSE "",
     items |-> TodoItemsOf(b)]

\* the return statement of normalize_todo_blocks
TodoResult(r) ==
    [todo_section_title |-> SectionTitle(r.groups, "Todo"),
     todo_groups |-> r.groups,
     skip_block_indexes |-> r.skip_block_indexes]

normalize_todo_blocks(extra_data) ==
    TodoResult(Scan(BlocksOf(extra_data), TodoConsumes, TodoGroup))

(***************************************************************************)
(* The generic pass: the flat block list.                                  *)
(***************************************************************************)
\* stringify_unknown of a scalar or of a nested value: a text is itself,
\* undefined has no JSON text (JSON.stringify gives undefined), an object or an
\* array is its JSON text
stringify_unknown(value) ==
    CASE value.t = "string" -> JStr(value.s)
      [] value.t = "undefined" -> JUndef
      [] value.t = "object" -> JStr("{..}")
      [] value.t = "array" -> JStr("[..]")
      [] OTHER -> JStr(ToText(value))

\* one entry of a memory_blocks block
MemoryEntry == [t |-> "object", label |-> JUndef, chars |-> JUndef]

\* trimmed text that starts and ends like a JSON object or array and parses:
\* the texts of the vocabulary that JSON.parse accepts, with their 2-space
\* rendering
PrettyJson == [x \in {"{\"a\":1}", " [1,2] "} |->
                  IF x = "{\"a\":1}" THEN "{\n  \"a\": 1\n}" ELSE "[\n  1,\n  2\n]"]
\* try_pretty_json(text) !== undefined
HasPrettyJson(text) == text \in DOMAIN PrettyJson

block_label(kind, channel) ==
    CASE kind = "markdown" -> "Markdown"
      [] kind = "text" -> "Text"
      [] kind = "code" -> "Code"
      [] kind = "diff" -> "Diff"
      [] kind = "json" -> "JSON"
      [] kind = "table" -> "Table"
      [] kind = "context_usage" -> "Context usage"
      [] kind = "file_tree" -> "File tree"
      [] kind = "memory_blocks" -> "Memory blocks"
      [] kind = "subagent_group" -> "Subagent group"
      [] kind \in {"background_tasks", "bash_tasks"} -> "Background tasks"
      [] kind = "queue" -> "Queue"
      [] kind = "plan" -> "Plan"
      [] kind = "todo" -> "Todo"
      [] kind = "stream" /\ channel = "stderr" -> "Stderr"
      [] kind = "stream" -> "Stdout"
      [] OTHER -> "Block"

\* value.map(stringify_unknown)
StringifyAll(q) == [k \in 1..Len(q) |-> stringify_unknown(q[k])]
\* list_items.join("\n"); an undefined element joins as the empty text
JoinLines(q) == JoinWith([k \in 1..Len(q) |-> IF IsString(q[k]) THEN q[k].s ELSE ""], "\n")

\* the table branch of normalize_turn_blocks
TableBlock(index, kind, title, block) ==
    LET columns == IF IsArray(block.columns) THEN StringifyAll(block.columns.items) ELSE <<>>
        raw_rows == IF IsArray(block.rows) THEN block.rows.items ELSE <<>>
        rows ==
            [k \in 1..Len(raw_rows) |->
                IF IsArray(raw_rows[k]) THEN StringifyAll(raw_rows[k].items)
                ELSE <<stringify_unknown(raw_rows[k])>>]
    IN [index |-> index, kind |-> kind, label |-> block_label(kind, ""), title |-> title,
        text |-> JStr(""), language |-> "", channel |-> "",
        columns |-> columns, rows |-> rows, has_columns |-> Len(columns) > 0,
        copy_text |->
            JStr("{columns:[" \o JoinLines(columns) \o "],rows:["
                     \o JoinWith([k \in 1..Len(rows) |-> "[" \o JoinLines(rows[k]) \o "]"], ",")
                     \o "]}"),
        is_table |-> TRUE, is_stream |-> FALSE, is_unknown |-> FALSE,
        is_context_usage |-> FALSE, has_context_usage_percent |-> FALSE,
        context_usage_percent |-> 0, has_list_items |-> FALSE, list_items |-> <<>>,
        is_file_tree |-> FALSE]

\* twice the value of a number
Halves(v) == 2 * v.n + (IF v.s = "half" THEN 1 ELSE 0)
\* a percentage that is not clamped
context_usage_percent_raw(used, limit) == (Halves(used) * 100) \div Halves(limit)
\* Math.max(0, Math.min(100, (used / limit) * 100)), to the whole percent below
context_usage_percent(used, limit) ==
    LET pct == (Halves(used) * 100) \div Halves(limit)
    IN IF pct < 0 THEN 0 ELSE IF pct > 100 THEN 100 ELSE pct

\* the if / else-if chain of normalize_turn_blocks for the kinds that are no table
BlockBody(kind, channel, block) ==
    LET base == [text |-> JStr(""), language |-> "", is_unknown |-> FALSE,
                 list_items |-> <<>>, has_context_usage_percent |-> FALSE,
                 context_usage_percent |-> 0]
        strOr(v) == IF IsString(v) THEN v ELSE stringify_unknown(v)
    IN CASE kind \in {"markdown", "text"} \/ (kind = "stream" /\ channel # "") ->
              [base EXCEPT !.text = strOr(block.text)]
         [] kind = "code" ->
              LET text == strOr(block.code)
                  language == IF IsString(block.language) THEN block.language.s ELSE ""
              IN [base EXCEPT
                     !.text = IF language = "json" /\ IsString(text) /\ HasPrettyJson(text.s)
                              THEN JStr(PrettyJson[text.s]) ELSE text,
                     !.language = language]
         [] kind = "diff" ->
              [base EXCEPT !.text = strOr(block.diff),
                           !.language = IF IsString(block.language) THEN block.language.s
                                        ELSE "diff"]
         [] kind = "json" ->
              [base EXCEPT
                  !.text = IF IsString(block.text)
                           THEN (IF HasPrettyJson(block.text.s)
                                 THEN JStr(PrettyJson[block.text.s]) ELSE block.text)
                           ELSE IF block.has_json THEN stringify_unknown(block.json)
                           ELSE JStr(block.raw),
                  !.language = "json"]
         [] kind = "context_usage" ->
              LET used == block.used
                  limit == block.limit
                  unit == IF IsString(block.unit) THEN block.unit.s ELSE "tokens"
                  breakdown == IF IsArray(block.breakdown) THEN block.breakdown.items ELSE <<>>
                  has == IsNumber(used) /\ IsNumber(limit) /\ Halves(limit) > 0
                  pct == IF has THEN context_usage_percent(used, limit) ELSE 0
              IN [base EXCEPT
                     !.has_context_usage_percent = has,
                     !.context_usage_percent = pct,
                     !.text = IF has
                              THEN JStr(ToText(used) \o "/" \o ToText(limit) \o " " \o unit)
                              ELSE IF IsString(block.text) THEN block.text
                              ELSE JStr(block.raw),
                     !.list_items = StringifyAll(breakdown)]
         [] kind = "file_tree" ->
              IF IsArray(block.entries)
              THEN [base EXCEPT !.list_items = StringifyAll(block.entries.items),
                                !.text = JStr(JoinLines(StringifyAll(block.entries.items)))]
              ELSE IF IsString(block.tree) THEN [base EXCEPT !.text = block.tree]
              ELSE [base EXCEPT
                       !.text = IF ~IsNullish(block.entries) THEN JStr("{..}")
                                ELSE IF ~IsNullish(block.tree) THEN stringify_unknown(block.tree)
                                ELSE JStr(block.raw)]
         [] kind = "memory_blocks" ->
              IF IsArray(block.blocks)
              THEN LET items ==
                           [k \in 1..Len(block.blocks.items) |->
                               LET item == block.blocks.items[k]
                               IN IF item.t # "object" THEN stringify_unknown(item)
                                  ELSE JStr((IF IsString(item.label) THEN item.label.s
                                             ELSE "(block)")
                                            \o (IF IsNumber(item.chars)
                                                THEN " (" \o ToText(item.chars) \o " chars)"
                                                ELSE ""))]
                   IN [base EXCEPT !.list_items = items, !.text = JStr(JoinLines(items))]
              ELSE IF IsString(block.text) THEN [base EXCEPT !.text = block.text]
              ELSE [base EXCEPT
                       !.text = IF ~IsNullish(block.blocks) THEN JStr("{..}")
                                ELSE JStr(block.raw)]
         [] kind \in {"subagent_group", "queue", "plan", "todo"} ->
              IF IsArray(block.items) \/ IsArray(block.rows)
              THEN LET raw_items == IF IsArray(block.items) THEN block.items.items
                                    ELSE block.rows.items
                   IN [base EXCEPT !.list_items = StringifyAll(raw_items),
                                   !.text = JStr(JoinLines(StringifyAll(raw_items)))]
              ELSE IF IsString(block.text) THEN [base EXCEPT !.text = block.text]
              ELSE [base EXCEPT !.text = JStr(block.raw)]
         [] OTHER -> [base EXCEPT !.text = JStr(block.raw), !.is_unknown = TRUE]

\* out.push({...}) for a block that is no table
Flat(index, kind, title, channel, data) ==
    [index |-> index, kind |-> kind, label |-> block_label(kind, channel),
     title |-> title, text |-> data.text, language |-> data.language,
     channel |-> channel, columns |-> <<>>, rows |-> <<>>, has_columns |-> FALSE,
     copy_text |-> data.text, is_table |-> FALSE,
     is_stream |-> kind = "stream" /\ channel # "",
     is_unknown |-> data.is_unknown,
     is_context_usage |-> kind = "context_usage",
     has_context_usage_percent |-> data.has_context_usage_percent,
     context_usage_percent |-> data.context_usage_percent,
     has_list_items |-> Len(data.list_items) > 0,
     list_items |-> data.list_items,
     is_file_tree |-> kind = "file_tree"]

FlatOfChannel(index, kind, title, channel, block) ==
    Flat(index, kind, title, channel, BlockBody(kind, channel, block))

FlatOfKind(index, kind, title, block) ==
    IF kind = "table" THEN TableBlock(index, kind, title, block)
    ELSE FlatOfChannel(index, kind, title,
                       IF kind = "stream" /\ block.channel \in {JStr("stdout"), JStr("stderr")}
                       THEN block.channel.s ELSE "",
                       block)

\* a flat block that takes a block without a string kind for a text block
FlatBlock_kindless_is_text(index, block) ==
    FlatOfKind(index,
               IF IsString(block.kind) THEN block.kind.s ELSE "text",
               IF IsString(block.title) THEN block.title.s ELSE "",
               block)
\* the flat block of one element of turn.blocks that is an object
FlatBlock(index, block) ==
    FlatOfKind(index,
               IF IsString(block.kind) THEN block.kind.s ELSE "unknown",
               IF IsString(block.title) THEN block.title.s ELSE "",
               block)

\* normalize_turn_blocks(raw_blocks, {skip_block_indexes})
normalize_turn_blocks(raw_blocks, skip_block_indexes) ==
    IF ~IsArray(raw_blocks) THEN <<>>
    ELSE LET kept == SelectSeq(Positions(raw_blocks.items), LAMBDA i :
                         (i - 1) \notin skip_block_indexes /\ raw_blocks.items[i].t = "object")
         IN [k \in 1..Len(kept) |-> FlatBlock(kept[k] - 1, raw_blocks.items[kept[k]])]

(***************************************************************************)
(* normalize_extra_data: the candidate fields, widget_state_schema, and    *)
(* the state it returns.                                                   *)
(***************************************************************************)
\* twice the value of a number, so that n + 1/2 compares as an integer
Twice(v) == 2 * v.n + (IF v.s = "half" THEN 1 ELSE 0)

NoParallelState ==
    [defined |-> FALSE, groupId |-> "", index |-> JNum(0), count |-> JNum(0),
     hasPrev |-> FALSE, hasNext |-> FALSE]

\* a parallel field that is there whether the turn names a group or not
ParallelOf_always(turn) == [NoParallelState EXCEPT !.defined = TRUE]
\* the parallel: (() => {...})() field of normalize_extra_data
ParallelOf(turn) ==
    LET p == turn.parallel
        groupId == IF IsString(p.groupId) THEN p.groupId.s ELSE ""
        index == IF IsNumber(p.index) THEN p.index ELSE JNum(0)
        count == IF IsNumber(p.count) THEN p.count
                 ELSE IF Twice(index) + 2 >= 2 THEN [index EXCEPT !.n = @ + 1]
                 ELSE JNum(1)
    IN IF p.t # "object" \/ groupId = "" THEN NoParallelState
       ELSE [defined |-> TRUE, groupId |-> groupId, index |-> index, count |-> count,
             hasPrev |-> IF IsBoolean(p.hasPrev) THEN p.hasPrev.n = 1
                         ELSE Twice(index) > 0,
             hasNext |-> IF IsBoolean(p.hasNext) THEN p.hasNext.n = 1
                         ELSE Twice(index) < Twice(count) - 2]

\* ed.turn && typeof ed.turn === "object" ? ed.turn : null, read with ?.
TurnOf(extra_data) == IF extra_data.turn.t = "object" THEN extra_data.turn ELSE NoTurn

\* the object handed to widget_state_schema.safeParse; skip_block_indexes holds
\* all the indexes the four extractors consumed
Candidate(extra_data, skip_block_indexes) ==
    LET ed == extra_data
        turn == TurnOf(ed)
        kindRaw == ToText(OrElse(turn.kind, JStr("")))
        statusRaw == ToText(OrElse(turn.status, OrElse(ed.status, JStr("running"))))
    IN [version |-> Coalesce(ed.version, JNum(2)),
        display |-> Coalesce(ed.display, JStr("card_only")),
        kind |-> IF kindRaw \in KindEnum THEN kindRaw ELSE "final",
        title |-> Coalesce(turn.title, Coalesce(ed.title, JStr("Agent output"))),
        caption |-> Coalesce(turn.subtitle, Coalesce(ed.caption, JStr(""))),
        status |-> IF statusRaw \in StatusEnum THEN statusRaw ELSE "running",
        tool |-> Coalesce(IF IsNullish(turn.tool) THEN JUndef ELSE turn.tool.name,
                          Coalesce(ed.tool, JStr(""))),
        input |-> Coalesce(IF IsNullish(turn.tool) THEN JUndef ELSE turn.tool.argsText,
                           Coalesce(ed.input, JStr(""))),
        output |-> Coalesce(turn.output, Coalesce(ed.output, JStr(""))),
        blocks |-> normalize_turn_blocks(turn.blocks, skip_block_indexes),
        parallel |-> ParallelOf(turn)]

\* the blocks entry of widget_state_schema
BlockSchema(b) ==
    /\ IsString(b.text) /\ IsString(b.copy_text)
    /\ AllItems(b.columns, IsString)
    /\ AllItems(b.rows, LAMBDA row : AllItems(row, IsString))
    /\ AllItems(b.list_items, IsString)

widget_state_schema(c) ==
    /\ NonNegInt(c.version)
    /\ IsString(c.display) /\ c.display.s \in DisplayEnum
    /\ c.kind \in KindEnum
    /\ IsString(c.title) /\ IsString(c.caption)
    /\ c.status \in StatusEnum
    /\ IsString(c.tool) /\ IsString(c.input) /\ IsString(c.output)
    /\ AllItems(c.blocks, BlockSchema)

\* parsed.data: the candidate after a successful parse
ParsedData(c) ==
    [version |-> c.version.n, display |-> c.display.s, kind |-> c.kind,
     title |-> c.title.s, caption |-> c.caption.s, status |-> c.status,
     tool |-> c.tool.s, input |-> c.input.s, output |-> c.output.s,
     blocks |->
         [k \in 1..Len(c.blocks) |->
             LET texts(q) == [j \in 1..Len(q) |-> q[j].s]
             IN [c.blocks[k] EXCEPT
                    !.text = @.s, !.copy_text = @.s, !.columns = texts(@),
                    !.rows = [j \in 1..Len(@) |-> texts(@[j])],
                    !.list_items = texts(@)]],
     parallel |-> c.parallel]

\* safe defaults whose status is none of the eight the schema knows
SafeDefaults_idle ==
    [version |-> 2, display |-> "card_only", kind |-> "final", title |-> "Agent output",
     caption |-> "", status |-> "idle", tool |-> "", input |-> "", output |-> "",
     blocks |-> <<>>, parallel |-> NoParallelState]

\* the fields of the state substituted when the parse fails
SafeDefaults ==
    [version |-> 2, display |-> "card_only", kind |-> "final", title |-> "Agent output",
     caption |-> "", status |-> "running", tool |-> "", input |-> "", output |-> "",
     blocks |-> <<>>, parallel |-> NoParallelState]

\* the derived fields with a todo flag that does not look at the todo groups
DerivedFields_todo_flag_fixed(sub, bg, plan, todo) ==
    [turn_kind |-> sub.turn_kind,
     turn_kind_label |-> sub.turn_kind_label,
     has_subagent_groups |-> Len(sub.subagent_groups) > 0,
     subagent_section_title |-> sub.subagent_section_title,
     subagent_groups |-> sub.subagent_groups,
     has_background_tasks |-> Len(bg.background_task_groups) > 0,
     background_tasks_section_title |-> bg.background_tasks_section_title,
     background_task_groups |-> bg.background_task_groups,
     has_plan_blocks |-> Len(plan.plan_groups) > 0,
     plan_section_title |-> plan.plan_section_title,
     plan_groups |-> plan.plan_groups,
     has_todo_blocks |-> TRUE,
     todo_section_title |-> todo.todo_section_title,
     todo_groups |-> todo.todo_groups]

\* the derived fields both return statements of normalize_extra_data add, from
\* the results of the four extractors
DerivedFields(sub, bg, plan, todo) ==
    [turn_kind |-> sub.turn_kind,
     turn_kind_label |-> sub.turn_kind_label,
     has_subagent_groups |-> Len(sub.subagent_groups) > 0,
     subagent_section_title |-> sub.subagent_section_title,
     subagent_groups |-> sub.subagent_groups,
     has_background_tasks |-> Len(bg.background_task_groups) > 0,
     background_tasks_section_title |-> bg.background_tasks_section_title,
     background_task_groups |-> bg.background_task_groups,
     has_plan_blocks |-> Len(plan.plan_groups) > 0,
     plan_section_title |-> plan.plan_section_title,
     plan_groups |-> plan.plan_groups,
     has_todo_blocks |-> Len(todo.todo_groups) > 0,
     todo_section_title |-> todo.todo_section_title,
     todo_groups |-> todo.todo_groups]

\* f @@ g for records
Merge(f, g) ==
    [x \in (DOMAIN f) \cup (DOMAIN g) |-> IF x \in DOMAIN f THEN f[x] ELSE g[x]]

\* a widget that has no state
NoState == [absent |-> TRUE]

\* reading extra_data.turn throws a TypeError when extra_data is null or undefined
NormalizeThrows(extra_data) == extra_data.t \in {"null", "undefined"}

\* widget_state_schema.safeParse(candidate) and the two return statements
ParseCandidate(c, derived) ==
    IF widget_state_schema(c)
    THEN [threw |-> FALSE, warned |-> FALSE, state |-> Merge(ParsedData(c), derived)]
    ELSE [threw |-> FALSE, warned |-> TRUE, state |-> Merge(SafeDefaults, derived)]

\* normalize_extra_data once the four extractors have run
Assemble(extra_data, sub, bg, plan, todo) ==
    ParseCandidate(Candidate(extra_data,
                             sub.skip_block_indexes \cup bg.skip_block_indexes
                                 \cup plan.skip_block_indexes \cup todo.skip_block_indexes),
                   DerivedFields(sub, bg, plan, todo))

\* the skip_block_indexes set of normalize_extra_data: every index one of the
\* four extractors consumed
SkipBlockIndexes(extra_data) ==
    normalize_subagent_groups(extra_data).skip_block_indexes
        \cup normalize_background_tasks(extra_data).skip_block_indexes
        \cup normalize_plan_blocks(extra_data).skip_block_indexes
        \cup normalize_todo_blocks(extra_data).skip_block_indexes

\* normalize_extra_data(extra_data): the state returned, whether blueslip.warn
\* was called, and whether a TypeError left the function instead
normalize_extra_data(extra_data) ==
    IF NormalizeThrows(extra_data)
    THEN [threw |-> TRUE, warned |-> FALSE, state |-> NoState]
    ELSE Assemble(extra_data,
                  normalize_subagent_groups(extra_data),
                  normalize_background_tasks(extra_data),
                  normalize_plan_blocks(extra_data),
                  normalize_todo_blocks(extra_data))

(***************************************************************************)
(* Inbound events.  event.data is any JSON value; an object is a record of *)
(* the keys the schema and the reducer read.                               *)
(***************************************************************************)
EventData ==
    [t |-> "object", type |-> JUndef, status |-> JUndef, output |-> JUndef,
     chunk |-> JUndef, extra_data |-> NotExtraData("undefined")]
SetExtraData(extra_data) ==
    [EventData EXCEPT !.type = JStr("set_extra_data"), !.extra_data = extra_data]
SetStatus(status) == [EventData EXCEPT !.type = JStr("set_status"), !.status = status]
SetOutput(output) == [EventData EXCEPT !.type = JStr("set_output"), !.output = output]
AppendOutput(chunk) == [EventData EXCEPT !.type = JStr("append_output"), !.chunk = chunk]

\* an event schema whose set_status takes any string for a status
sp_ai_widget_inbound_event_schema_any_status(data) ==
    /\ data.t = "object"
    /\ \/ data.type = JStr("set_extra_data")
       \/ data.type = JStr("set_status") /\ IsString(data.status)
       \/ data.type = JStr("set_output") /\ IsString(data.output)
       \/ data.type = JStr("append_output") /\ IsString(data.chunk)
\* sp_ai_widget_inbound_event_schema.safeParse(data).success
sp_ai_widget_inbound_event_schema(data) ==
    /\ data.t = "object"
    /\ \/ data.type = JStr("set_extra_data")
       \/ data.type = JStr("set_status") /\ IsString(data.status)
              /\ data.status.s \in StatusEnum
       \/ data.type = JStr("set_output") /\ IsString(data.output)
       \/ data.type = JStr("append_output") /\ IsString(data.chunk)

\* what a step of the loop body reports: the branch taken and the state it leaves
Handled(branch, state) ==
    [branch |-> branch, threw |-> FALSE, warned |-> FALSE, state |-> state]

\* state = normalize_extra_data(evt.extra_data): no assignment when it throws
Replaced(state, r) ==
    [branch |-> "set_extra_data", threw |-> r.threw, warned |-> r.warned,
     state |-> IF r.threw THEN state ELSE r.state]

\* if (evt.type === "set_extra_data") {...}
SetExtraDataBranch(state, evt) == Replaced(state, normalize_extra_data(evt.extra_data))

\* a set_status branch that builds the new state from the status alone
SetStatusBranch_resets_output(state, evt) ==
    Handled("set_status", [state EXCEPT !.status = evt.status.s, !.output = ""])
\* if (evt.type === "set_status") {...}
SetStatusBranch(state, evt) ==
    Handled("set_status", [state EXCEPT !.status = evt.status.s])

\* a set_output branch that adds to the output in place of replacing it
SetOutputBranch_concatenates(state, evt) ==
    Handled("set_output", [state EXCEPT !.output = state.output \o evt.output.s])
\* if (evt.type === "set_output") {...}
SetOutputBranch(state, evt) ==
    Handled("set_output", [state EXCEPT !.output = evt.output.s])

\* an append_output branch that puts the chunk in front
AppendOutputBranch_prepends(state, evt) ==
    Handled("append_output", [state EXCEPT !.output = evt.chunk.s \o state.output])
\* if (evt.type === "append_output") {...}
AppendOutputBranch(state, evt) ==
    Handled("append_output",
            [state EXCEPT !.output = IF state.output = "" THEN evt.chunk.s
                                      ELSE state.output \o evt.chunk.s])

(***************************************************************************)
(* The reducer.  The result names the branch that handled the event;       *)
(* "tail" is the exhaustiveness tail after the four branches.              *)
(***************************************************************************)
apply_inbound_event(state, evt) ==
    CASE evt.type = JStr("set_extra_data") -> SetExtraDataBranch(state, evt)
      [] evt.type = JStr("set_status") -> SetStatusBranch(state, evt)
      [] evt.type = JStr("set_output") -> SetOutputBranch(state, evt)
      [] evt.type = JStr("append_output") -> AppendOutputBranch(state, evt)
      [] OTHER -> Handled("tail", state)

\* one iteration of the for loop of handle_events: an event that fails the
\* schema is skipped, the others go to the reducer
LoopBody(state, data) ==
    IF ~sp_ai_widget_inbound_event_schema(data)
    THEN Handled("dropped", state)
    ELSE apply_inbound_event(state, data)

\* a loop that goes to render() after every iteration
AfterIteration_renders_each(threw, remaining) == IF threw THEN "idle" ELSE "render"
\* where handle_events goes after an iteration: out with the exception, on to
\* the next event, or to the render() that follows the loop
AfterIteration(threw, remaining) ==
    IF threw THEN "idle" ELSE IF remaining > 0 THEN "loop" ELSE "render"

\* the state handle_events leaves after the loop over a whole batch: the
\* events go through the loop body in order and an exception ends the call
\* with the events before it applied
RECURSIVE handle_events(_, _)
handle_events(state, events) ==
    IF events = <<>> THEN state
    ELSE LET r == LoopBody(state, Head(events))
         IN IF AfterIteration(r.threw, Len(events) - 1) = "loop"
            THEN handle_events(r.state, Tail(events))
            ELSE r.state

\* the state after the host made one call of the handler per batch of calls
RECURSIVE Delivered(_, _)
Delivered(state, calls) ==
    IF calls = <<>> THEN state
    ELSE Delivered(handle_events(state, Head(calls)), Tail(calls))

(***************************************************************************)
(* The widget of src/web/src/sp_ai_widget.ts, which imports the same event *)
(* schema from ./sp_ai_data.ts.  Its state has the card fields and the     *)
(* subagent groups; its definitions carry the suffix _web.                 *)
(***************************************************************************)
widget_state_schema_web(c) ==
    /\ NonNegInt(c.version)
    /\ IsString(c.display) /\ c.display.s \in DisplayEnum
    /\ IsString(c.title) /\ IsString(c.caption)
    /\ IsString(c.status) /\ c.status.s \in {"running", "ok", "error"}
    /\ IsString(c.tool) /\ IsString(c.input) /\ IsString(c.output)

\* the loop over extra_data.turn?.blocks ?? [] of a payload typed
\* SpAiWidgetExtraData, and the return statement
normalize_subagent_groups_web(extra_data) ==
    SubagentResult(Coalesce(extra_data.turn.kind, JStr("")),
                   Scan(BlocksOf(extra_data), SubagentConsumes, SubagentGroup))

\* the object handed to widget_state_schema.safeParse
Candidate_web(extra_data) ==
    [version |-> Coalesce(extra_data.version, JNum(1)),
     display |-> Coalesce(extra_data.display, JStr("card_only")),
     title |-> Coalesce(extra_data.title,
                        Coalesce(extra_data.turn.title,
                                 JStr(IF IsTruthy(extra_data.turn.kind)
                                      THEN default_title_for_turn_kind(extra_data.turn.kind)
                                      ELSE "Agent output"))),
     caption |-> Coalesce(extra_data.caption, JStr("")),
     status |-> Coalesce(extra_data.status, JStr("running")),
     tool |-> Coalesce(extra_data.tool, JStr("")),
     input |-> Coalesce(extra_data.input, JStr("")),
     output |-> Coalesce(extra_data.output, JStr(""))]

\* the two return statements
ParseCandidate_web(c, sub) ==
    [threw |-> FALSE,
     warned |-> ~widget_state_schema_web(c),
     state |->
         [version |-> IF widget_state_schema_web(c) THEN c.version.n ELSE 1,
          display |-> IF widget_state_schema_web(c) THEN c.display.s ELSE "card_only",
          title |-> IF widget_state_schema_web(c) THEN c.title.s ELSE "Agent output",
          caption |-> IF widget_state_schema_web(c) THEN c.caption.s ELSE "",
          status |-> IF widget_state_schema_web(c) THEN c.status.s ELSE "running",
          tool |-> IF widget_state_schema_web(c) THEN c.tool.s ELSE "",
          input |-> IF widget_state_schema_web(c) THEN c.input.s ELSE "",
          output |-> IF widget_state_schema_web(c) THEN c.output.s ELSE "",
          turn_kind |-> sub.turn_kind,
          turn_kind_label |-> sub.turn_kind_label,
          has_subagent_groups |-> Len(sub.subagent_groups) > 0,
          subagent_section_title |-> sub.subagent_section_title,
          subagent_groups |-> sub.subagent_groups]]

normalize_extra_data_web(extra_data) ==
    ParseCandidate_web(Candidate_web(extra_data), normalize_subagent_groups_web(extra_data))

\* the reducer: three branches, then the exhaustiveness tail
apply_inbound_event_web(state, evt) ==
    CASE evt.type = JStr("set_status") ->
           Handled("set_status", [state EXCEPT !.status = evt.status.s])
      [] evt.type = JStr("set_output") ->
           Handled("set_output", [state EXCEPT !.output = evt.output.s])
      [] evt.type = JStr("append_output") ->
           Handled("append_output",
                   [state EXCEPT !.output = IF state.output = "" THEN evt.chunk.s
                                             ELSE state.output \o evt.chunk.s])
      [] OTHER -> Handled("tail", state)

\* one iteration of the for loop of its handle_events
LoopBody_web(state, data) ==
    IF ~sp_ai_widget_inbound_event_schema(data)
    THEN Handled("dropped", state)
    ELSE apply_inbound_event_web(state, data)

(***************************************************************************)
(* The host's view of a creation payload: any_widget_data_schema accepts   *)
(* null or a value of sp_ai_widget_extra_data_schema.                      *)
(***************************************************************************)
sp_ai_turn_block_schema(b) ==
    /\ b.t = "object"
    /\ \/ OptString(b.kind) /\ OptString(b.title) /\ OptString(b.text)
       \/ b.kind = JStr("code") /\ OptString(b.title) /\ IsString(b.code)
              /\ OptString(b.language)
       \/ b.kind = JStr("diff") /\ OptString(b.title) /\ IsString(b.diff)
              /\ OptString(b.language)
       \/ b.kind = JStr("table") /\ OptString(b.title)
              /\ (b.columns.t = "undefined"
                      \/ (IsArray(b.columns) /\ AllItems(b.columns.items, IsString)))
              /\ (b.rows.t = "undefined"
                      \/ (IsArray(b.rows) /\ AllItems(b.rows.items, LAMBDA row :
                              IsArray(row) /\ AllItems(row.items, IsString))))
       \/ sp_ai_subagent_group_block_schema(b)
       \/ sp_ai_background_tasks_block_schema(b)

sp_ai_turn_schema(turn) ==
    /\ turn.t = "object"
    /\ IsString(turn.kind) /\ turn.kind.s \in KindEnum
    /\ IsString(turn.status) /\ turn.status.s \in StatusEnum
    /\ IsString(turn.title)
    /\ OptString(turn.subtitle) /\ OptString(turn.output)
    /\ \/ turn.tool.t = "undefined"
       \/ turn.tool.t = "object" /\ IsString(turn.tool.name) /\ OptString(turn.tool.argsText)
    /\ \/ turn.parallel.t = "undefined"
       \/ /\ turn.parallel.t = "object"
          /\ IsString(turn.parallel.groupId)
          /\ OptNumber(turn.parallel.index) /\ OptNumber(turn.parallel.count)
          /\ turn.parallel.hasPrev.t \in {"undefined", "boolean"}
          /\ turn.parallel.hasNext.t \in {"undefined", "boolean"}
    /\ \/ turn.blocks.t = "undefined"
       \/ IsArray(turn.blocks) /\ AllItems(turn.blocks.items, sp_ai_turn_block_schema)

sp_ai_widget_extra_data_schema(ed) ==
    /\ ed.t = "object"
    /\ OptNonNegInt(ed.version)
    /\ ed.display.t = "undefined" \/ (IsString(ed.display) /\ ed.display.s \in DisplayEnum)
    /\ OptString(ed.title) /\ OptString(ed.caption)
    /\ ed.status.t = "undefined" \/ (IsString(ed.status) /\ ed.status.s \in StatusEnum)
    /\ OptString(ed.tool) /\ OptString(ed.input) /\ OptString(ed.output)
    /\ ed.turn.t = "undefined" \/ sp_ai_turn_schema(ed.turn)

\* z.nullable(sp_ai_widget_extra_data_schema)
any_widget_data_schema(ed) == ed.t = "null" \/ sp_ai_widget_extra_data_schema(ed)

(***************************************************************************)
(* The payloads of the model.                                              *)
(***************************************************************************)
TextBlock == [Block EXCEPT !.raw = "{text}", !.kind = JStr("text"), !.text = JStr("hello")]
CodeBlock ==
    [Block EXCEPT !.raw = "{code}", !.kind = JStr("code"), !.title = JStr("main"),
                  !.code = JStr("x = 1"), !.language = JStr("python")]
\* a diff block that carries no diff
HollowDiffBlock == [Block EXCEPT !.raw = "{diff}", !.kind = JStr("diff")]
UnknownBlock == [Block EXCEPT !.raw = "{mystery}", !.kind = JStr("mystery")]
KindlessBlock == [Block EXCEPT !.raw = "{kindless}", !.text = JStr("raw")]
\* a block whose kind is no string
NumberKindBlock == [Block EXCEPT !.raw = "{seven}", !.kind = JNum(7), !.text = JStr("n")]
SubagentBlock ==
    [Block EXCEPT
        !.raw = "{subagents}", !.kind = JStr("subagent_group"), !.title = JStr("Team"),
        !.agents = List(<<[Agent EXCEPT !.type = JStr("s1"), !.status = JStr("OK"),
                                         !.toolCount = JNum(1), !.durationMs = JNum(999)],
                          [Agent EXCEPT !.status = JStr(" wat")],
                          [Agent EXCEPT !.durationMs = JNum(1000)],
                          [Agent EXCEPT !.durationMs = JNum(10000)],
                          [Agent EXCEPT !.durationMs = JNum(60000)],
                          [Agent EXCEPT !.status = JStr("Pending")],
                          [Agent EXCEPT !.durationMs = JNum(119500)]>>)]
EmptySubagentBlock ==
    [Block EXCEPT !.raw = "{nobody}", !.kind = JStr("subagent_group"),
                  !.agents = List(<<>>), !.text = JStr("")]
BackgroundBlock ==
    [Block EXCEPT
        !.raw = "{tasks}", !.kind = JStr("bash_tasks"),
        !.tasks = List(<<[Task EXCEPT !.status = JStr("queued")],
                         [Task EXCEPT !.command = JStr("ls"), !.status = JStr("Failed"),
                                      !.exitCode = JNum(2)]>>)]
\* a background-task block whose single task has nothing to show
EmptyBackgroundBlock ==
    [Block EXCEPT !.raw = "{idle}", !.kind = JStr("background_tasks"),
                  !.tasks = List(<<[Task EXCEPT !.command = JStr(""),
                                                !.status = JStr("running")]>>)]
PlanBlock ==
    [Block EXCEPT
        !.raw = "{plan}", !.kind = JStr("plan"), !.title = JStr("Steps"),
        !.steps = List(<<[Step EXCEPT !.step = JStr(" s1 "), !.status = JStr("Done")],
                         [Step EXCEPT !.step = JStr(" ")],
                         [Step EXCEPT !.step = JStr("s2"), !.status = JStr("todo")]>>)]
\* a context_usage block with its used and limit
UsageBlock(raw, used, limit) ==
    [Block EXCEPT !.raw = raw, !.kind = JStr("context_usage"), !.used = used,
                  !.limit = limit]
\* a plan block of the legacy encoding: a list of texts
LegacyPlanBlock ==
    [Block EXCEPT !.raw = "{list}", !.kind = JStr("plan"),
                  !.items = List(<<JStr(" "), JStr(" s1 "), JStr("s2")>>)]
\* a plan block whose steps are all blank
EmptyPlanBlock ==
    [Block EXCEPT
        !.raw = "{blank}", !.kind = JStr("plan"), !.title = JStr("Nothing"),
        !.steps = List(<<[Step EXCEPT !.step = JStr(" ")], [Step EXCEPT !.step = JStr("")]>>)]
TodoBlock ==
    [Block EXCEPT
        !.raw = "{todo}", !.kind = JStr("todo"),
        !.items = List(<<JStr("[x] t1"), JStr("nobox"), JStr("[ ] t2")>>)]

ToolTurn ==
    [Turn EXCEPT
        !.kind = JStr("tool"), !.status = JStr("pending"), !.title = JStr("Run"),
        !.subtitle = JStr("sub"), !.output = JStr("b"),
        !.tool = [Tool EXCEPT !.name = JStr("bash"), !.argsText = JStr("ls")],
        !.blocks = List(<<TextBlock, CodeBlock>>)]
GroupsTurn ==
    [Turn EXCEPT
        !.kind = JStr("subagent_group"), !.status = JStr("running"), !.title = JStr("Work"),
        !.blocks = List(<<SubagentBlock, UnknownBlock, BackgroundBlock, PlanBlock,
                          NotABlock("null"), TodoBlock, EmptySubagentBlock, KindlessBlock,
                          NumberKindBlock, LegacyPlanBlock>>)]
\* a turn whose only groups are empty ones
HollowTurn ==
    [Turn EXCEPT
        !.kind = JStr("final"), !.status = JStr("ok"), !.title = JStr("Done"),
        !.blocks = List(<<EmptySubagentBlock, EmptyBackgroundBlock, EmptyPlanBlock>>)]
\* a turn with two subagent groups, one background group with a blank title,
\* one plan group and two todo groups
TwinsTurn ==
    [Turn EXCEPT
        !.kind = JStr("plan"), !.status = JStr("ok"), !.title = JStr("Twins"),
        !.blocks = List(<<SubagentBlock, [SubagentBlock EXCEPT !.title = JStr("Crew")],
                          [BackgroundBlock EXCEPT !.title = JStr(" ")], PlanBlock,
                          EmptyPlanBlock, TodoBlock,
                          [TodoBlock EXCEPT !.title = JStr("Later")],
                          UsageBlock("{quarter}", JNum(50), JNum(200)),
                          UsageBlock("{below}", JNum(-5), JNum(10)),
                          UsageBlock("{above}", JNum(300), JNum(200)),
                          [UsageBlock("{nolimit}", JNum(5), JNum(0)) EXCEPT
                              !.text = JStr("n/a")],
                          UsageBlock("{many}", JStr("many"), JNum(10)),
                          [TextBlock EXCEPT !.used = JNum(1), !.limit = JNum(2)]>>)]
AskTurn ==
    [Turn EXCEPT
        !.kind = JStr("ask"), !.status = JStr("approval_requested"), !.title = JStr("Q"),
        !.parallel = [Parallel EXCEPT !.groupId = JStr("g"), !.index = JNum(1)]]

V1Payload ==
    [ExtraData EXCEPT
        !.version = JNum(1), !.display = JStr("card_with_caption"), !.title = JStr("T1"),
        !.caption = JStr("cap"), !.status = JStr("ok"), !.tool = JStr("sh"),
        !.input = JStr("pwd"), !.output = JStr("a")]

Payloads ==
    { ExtraData,
      V1Payload,
      [ExtraData EXCEPT !.status = JStr("running")],
      [ExtraData EXCEPT !.status = JStr("denied"), !.output = JStr("ab")],
      [ExtraData EXCEPT !.turn = ToolTurn],
      [V1Payload EXCEPT !.turn = ToolTurn],
      [V1Payload EXCEPT !.turn = [Turn EXCEPT !.kind = JStr("thinking"),
                                               !.status = JStr("running"),
                                               !.title = JStr("Hm")]],
      [ExtraData EXCEPT !.turn = GroupsTurn],
      [ExtraData EXCEPT !.turn = AskTurn],
      [ExtraData EXCEPT !.turn = HollowTurn],
      [ExtraData EXCEPT !.turn = TwinsTurn],
      [ExtraData EXCEPT !.turn = [ToolTurn EXCEPT !.blocks = List(<<HollowDiffBlock,
                                                                     SubagentBlock>>)]],
      \* payloads the creation schema rejects
      NotExtraData("null"),
      NotExtraData("undefined"),
      NotExtraData("string"),
      NotExtraData("number"),
      [ExtraData EXCEPT !.version = JNum(-1), !.output = JStr("a")],
      [ExtraData EXCEPT !.version = JHalf(1)],
      [ExtraData EXCEPT !.display = JStr("wide"), !.turn = GroupsTurn],
      [ExtraData EXCEPT !.status = JStr("bogus")],
      [ExtraData EXCEPT !.output = JNum(5), !.status = JStr("ok")],
      [ExtraData EXCEPT !.title = JNull, !.caption = JNull],
      [ExtraData EXCEPT !.turn = [NoTurn EXCEPT !.t = "number"], !.title = JStr("T1")],
      [ExtraData EXCEPT !.turn = [NoTurn EXCEPT !.t = "null"]],
      [ExtraData EXCEPT !.turn = [Turn EXCEPT !.kind = JStr("weird"),
                                              !.status = JStr("bogus"),
                                              !.blocks = NotAList("string")]],
      [ExtraData EXCEPT !.turn = [Turn EXCEPT !.kind = JNum(7), !.title = JNum(7)]] }

\* what the host can hand to activate
CreationPayloads == {ed \in Payloads : any_widget_data_schema(ed)}

Chunks == {"", "a", "b"}

\* the payloads that arrive in set_extra_data events
EventPayloads ==
    { ExtraData,
      V1Payload,
      [ExtraData EXCEPT !.status = JStr("running")],
      [ExtraData EXCEPT !.turn = ToolTurn],
      [ExtraData EXCEPT !.turn = GroupsTurn],
      [ExtraData EXCEPT !.status = JStr("bogus")],
      [ExtraData EXCEPT !.turn = [Turn EXCEPT !.kind = JStr("weird"),
                                              !.status = JStr("bogus")]],
      [ExtraData EXCEPT !.display = JStr("wide"), !.turn = GroupsTurn],
      [V1Payload EXCEPT !.turn = [ToolTurn EXCEPT !.status = JStr("")]],
      NotExtraData("null"),
      NotExtraData("undefined"),
      NotExtraData("string") }

\* event.data of the events the schema accepts
ValidEvents ==
    {SetExtraData(ed) : ed \in EventPayloads}
        \cup {SetStatus(JStr(st)) : st \in {"ok", "error"}}
        \cup {SetOutput(JStr(x)) : x \in {"", "b"}}
        \cup {AppendOutput(JStr(x)) : x \in Chunks}

\* event.data of the events the schema rejects: a status outside the enum or
\* missing, a payload that is no string, an unknown type, no type, no object
InvalidEvents ==
    { SetStatus(JStr("bogus")), SetStatus(JUndef),
      SetOutput(JNum(5)), AppendOutput(JNull),
      [EventData EXCEPT !.type = JStr("reset"), !.output = JStr("a")],
      [EventData EXCEPT !.status = JStr("ok")],
      [EventData EXCEPT !.t = "null"],
      [EventData EXCEPT !.t = "string"] }

\* event.data of the events the host delivers
Events == ValidEvents \cup InvalidEvents

(***************************************************************************)
(* What render() hands to the template.                                    *)
(***************************************************************************)
\* nothing has been rendered
NotPainted ==
    [shown |-> FALSE, show_abort |-> FALSE, show_retry |-> FALSE, show_approve |-> FALSE,
     show_deny |-> FALSE]

\* a render that offers retry only for a turn that ended in ok or error
render_retry_when_done(state) ==
    [shown |-> TRUE,
     show_abort |-> state.status = "running",
     show_retry |-> state.status \in {"ok", "error"},
     show_approve |-> state.kind = "ask",
     show_deny |-> state.kind = "ask"]

\* the action flags render() computes from state for the template
render(state) ==
    [shown |-> TRUE,
     show_abort |-> state.status = "running",
     show_retry |-> state.status # "running",
     show_approve |-> state.kind = "ask",
     show_deny |-> state.kind = "ask"]

\* render() of src/web/src/sp_ai_widget.ts computes no action flag
render_web(state) == [NotPainted EXCEPT !.shown = TRUE]

(***************************************************************************)
(* The click handler of button[data-copy-bg-task-command].  The attribute  *)
(* is "<group>:<task>"; the model hands the handler its two parts.         *)
(***************************************************************************)
\* no copy button has been clicked
NoCopy == [group |-> "", task |-> "", text |-> <<>>]

\* Number.parseInt(raw, 10) of the texts the model clicks with; NaN for a
\* text that does not start with a digit
NaN == [t |-> "number", s |-> "NaN", n |-> 0]
ParseInt(raw) ==
    IF raw = "0" THEN JNum(0)
    ELSE IF raw = "1" THEN JNum(1)
    ELSE IF raw = "2" THEN JNum(2)
    ELSE IF raw = "3" THEN JNum(3)
    ELSE NaN

\* Number.isInteger(v)
IsInteger(v) == v.t = "number" /\ v.s = ""

\* q.find(P): the first element of q at which Found is true, as <<element>>,
\* or <<>>
FirstWhere(q, found) ==
    IF found = {} THEN <<>>
    ELSE <<q[CHOOSE i \in found : \A j \in found : i <= j]>>

\* what the handler hands to copy_text, as <<text>>, or <<>> when it returns
\* before
copy_bg_task_command(state, raw_group, raw_task) ==
    LET group_index == ParseInt(raw_group)
        task_index == ParseInt(raw_task)
        groups == state.background_task_groups
        group == FirstWhere(groups, {i \in 1..Len(groups) :
                                        groups[i].group_index = group_index.n})
        tasks == IF group = <<>> THEN <<>> ELSE group[1].tasks
        task == FirstWhere(tasks, {j \in 1..Len(tasks) :
                                      tasks[j].task_index = task_index.n})
    IN IF ~IsInteger(group_index) \/ ~IsInteger(task_index) THEN <<>>
       ELSE IF task = <<>> THEN <<>>
       ELSE <<task[1].command>>

(***************************************************************************)
(* location_memory_ui.  A context is named by its scope.  mem holds the    *)
(* module variables current_context ("" for null), is_loading and          *)
(* is_saving, the textarea and the save button of the page, the error box, *)
(* the requests that have not been answered (gets: the contexts asked for, *)
(* posts: the data sent) and the timers set and not yet fired.  loads and  *)
(* saves count the requests sent; answer is the text each context was last *)
(* answered with, and overtaken tells that a response arrived before the   *)
(* response to an earlier load.                                            *)
(***************************************************************************)
\* the most load requests and save requests one page sends
MaxLoads == 3
MaxSaves == 2

Contexts == {"org", "thread"}

\* the text the server holds for a context
ServerText(context) == IF context = "org" THEN "about org" ELSE "about thread"

\* what the user types into the textarea
TypedTexts == {"", "note"}

MemStart ==
    [current_context |-> "", is_loading |-> FALSE, is_saving |-> FALSE,
     textarea |-> "", textarea_disabled |-> FALSE,
     button_disabled |-> FALSE, button_text |-> "Save",
     error |-> "", gets |-> <<>>, posts |-> <<>>, timers |-> 0,
     loads |-> 0, saves |-> 0,
     answer |-> [c \in Contexts |-> ""], overtaken |-> FALSE]

clear_error(m) == [m EXCEPT !.error = ""]

set_loading_state(m) ==
    [m EXCEPT !.is_loading = TRUE, !.textarea_disabled = TRUE,
              !.textarea = "Loading...", !.button_disabled = TRUE]

set_saving_state(m) ==
    [m EXCEPT !.is_saving = TRUE, !.textarea_disabled = TRUE,
              !.button_disabled = TRUE, !.button_text = "Saving..."]

clear_loading_state(m, text) ==
    [m EXCEPT !.is_loading = FALSE, !.textarea_disabled = FALSE,
              !.textarea = text, !.button_disabled = FALSE]

clear_saving_state(m) ==
    [m EXCEPT !.is_saving = FALSE, !.textarea_disabled = FALSE,
              !.button_disabled = FALSE, !.button_text = "Save"]

\* load_memory(context) up to the request
load_memory(m, context) ==
    [set_loading_state(clear_error([m EXCEPT !.current_context = context]))
        EXCEPT !.gets = Append(@, context), !.loads = @ + 1]

\* the success callback of the request of load_memory; data is the response
load_success(m, data) ==
    clear_loading_state(m, IF IsString(data.text) THEN data.text.s ELSE "")

\* the error callback of the request of load_memory
load_error(m) == clear_loading_state([m EXCEPT !.error = "server"], "")

\* a save_memory that does not look at is_saving
save_memory_unguarded(m) ==
    IF m.current_context = ""
    THEN [branch |-> "no_context", mem |-> [m EXCEPT !.error = "client"]]
    ELSE [branch |-> "post",
          mem |-> [set_saving_state(clear_error(m)) EXCEPT
                      !.posts = Append(@, [scope |-> m.current_context,
                                           text |-> m.textarea]),
                      !.saves = @ + 1]]

\* save_memory() up to the request: the branch taken and the module after it
save_memory(m) ==
    IF m.current_context = ""
    THEN [branch |-> "no_context", mem |-> [m EXCEPT !.error = "client"]]
    ELSE IF m.is_saving
    THEN [branch |-> "busy", mem |-> m]
    ELSE [branch |-> "post",
          mem |-> [set_saving_state(clear_error(m)) EXCEPT
                      !.posts = Append(@, [scope |-> m.current_context,
                                           text |-> m.textarea]),
                      !.saves = @ + 1]]

\* the success callback of the request of save_memory: the message and the
\* timer that will take it away
save_success(m) ==
    [clear_saving_state(m) EXCEPT !.error = "success", !.timers = @ + 1]

\* the error callback of the request of save_memory
save_error(m) == [clear_saving_state(m) EXCEPT !.error = "server"]

(***************************************************************************)
(* post_with_fallback and archive_with_fallback of agents_overlay_ui.  fb  *)
(* holds one call: which function (kind, "none" before the call), the list *)
(* it was given, the list of the innermost call (urls), the data, whether  *)
(* a request is unanswered (open), the requests sent and the statuses they *)
(* were answered with (200 for success), in order, and the callbacks       *)
(* invoked.                                                                *)
(***************************************************************************)
\* the longest list of URLs
MaxUrls == 3

FbStart ==
    [kind |-> "none", given |-> <<>>, urls |-> <<>>, data |-> "",
     open |-> FALSE, requests |-> <<>>, answers |-> <<>>, calls |-> <<>>]

\* post_with_fallback(urls, data, on_success, on_error) up to the request
post_with_fallback(f, urls, data) ==
    IF urls = <<>> \/ Head(urls) = ""
    THEN [f EXCEPT !.urls = urls, !.open = FALSE]
    ELSE [f EXCEPT !.urls = urls, !.open = TRUE,
                   !.requests = Append(@, [url |-> Head(urls), data |-> data])]

\* an error callback that goes on to the next URL whatever the status
post_error_any(f, status) ==
    IF Len(Tail(f.urls)) > 0
    THEN post_with_fallback(f, Tail(f.urls), f.data)
    ELSE [f EXCEPT !.open = FALSE, !.calls = Append(@, "on_error")]

\* the error callback of the request of post_with_fallback
post_error(f, status) ==
    IF status = 404 /\ Len(Tail(f.urls)) > 0
    THEN post_with_fallback(f, Tail(f.urls), f.data)
    ELSE [f EXCEPT !.open = FALSE, !.calls = Append(@, "on_error")]

\* archive_with_fallback(urls, on_success, on_error) up to the request
archive_with_fallback(f, urls) ==
    IF urls = <<>> \/ Head(urls) = ""
    THEN [f EXCEPT !.urls = urls, !.open = FALSE]
    ELSE [f EXCEPT !.urls = urls, !.open = TRUE,
                   !.requests = Append(@, [url |-> Head(urls), data |-> "{}"])]

\* the error callback of the request of archive_with_fallback
archive_error(f, status) ==
    IF status = 404 /\ Len(Tail(f.urls)) > 0
    THEN archive_with_fallback(f, Tail(f.urls))
    ELSE [f EXCEPT !.open = FALSE, !.calls = Append(@, "on_error")]

\* the success callback of either request
fallback_success(f) == [f EXCEPT !.open = FALSE, !.calls = Append(@, "on_success")]

(***************************************************************************)
(* The handlers of agents_overlay_ui that disable the button they were     *)
(* triggered by.  overlay holds the module variables overlay_is_open and   *)
(* current_memory_blocks_agent_id (panel: whether it is set), for each     *)
(* handler whether the button now in the page is disabled, and the         *)
(* requests of the handlers that are unanswered, each with whether the     *)
(* button it was triggered by is still the one in the page (attached).  A  *)
(* reload of a list puts fresh, enabled buttons in the place of the old.   *)
(***************************************************************************)
\* the most requests of the handlers unanswered at a time
MaxRequests == 2

Handlers ==
    {"budget", "create", "attach", "pause",
     "block_create", "block_save", "block_delete"}

\* the buttons in the rows of the agents list, and those in the memory
\* blocks panel
ListButtons == {"budget", "pause"}
PanelButtons == {"block_create", "block_save", "block_delete"}
BlockListButtons == {"block_save", "block_delete"}

OverlayStart ==
    [overlay_is_open |-> FALSE, panel |-> FALSE,
     disabled |-> [h \in Handlers |-> FALSE],
     requests |-> <<>>, error |-> ""]

\* $button.prop("disabled", value) on the button now in the page
prop_disabled(o, h, value) == [o EXCEPT !.disabled[h] = value]

\* the same on the button a callback holds, which may have left the page
prop_disabled_held(o, h, attached, value) ==
    IF attached THEN prop_disabled(o, h, value) ELSE o

\* the buttons hs are replaced by fresh ones
ButtonsReplaced(o, hs) ==
    [o EXCEPT !.disabled = [h \in Handlers |-> IF h \in hs THEN FALSE ELSE @[h]],
              !.requests = [i \in 1..Len(@) |->
                               IF @[i].handler \in hs
                               THEN [@[i] EXCEPT !.attached = FALSE] ELSE @[i]]]

\* load_agents(): the list is replaced at once, and again by the response
load_agents(o) ==
    IF ~o.overlay_is_open THEN o
    ELSE ButtonsReplaced([o EXCEPT !.error = ""], ListButtons)

\* load_memory_blocks(agent_id)
load_memory_blocks(o) ==
    IF ~o.overlay_is_open THEN o ELSE ButtonsReplaced(o, BlockListButtons)

\* the request of a handler is sent
Requested(o, h) ==
    [o EXCEPT !.error = "",
              !.requests = Append(@, [handler |-> h, attached |-> TRUE])]

\* a handler that disables its button first and gives it back when the
\* field or id it needs is missing: create-agent, attach-agent, memory
\* block create, save and delete
disable_then_check(o, h, present) ==
    IF ~present
    THEN prop_disabled([prop_disabled(o, h, TRUE) EXCEPT !.error = "client"],
                       h, FALSE)
    ELSE Requested(prop_disabled(o, h, TRUE), h)

\* the click handler of .toggle-pause-agent-button
pause_toggle(o, present) ==
    IF ~present
    THEN [prop_disabled(o, "pause", TRUE) EXCEPT !.error = "client"]
    ELSE Requested(prop_disabled(o, "pause", TRUE), "pause")

\* the submit handler of .agent-budget-inline-form
budget_submit(o, present) ==
    IF ~present
    THEN [o EXCEPT !.error = "client"]
    ELSE Requested(prop_disabled(o, "budget", TRUE), "budget")

\* what a handler does once the overlay is open (and the panel, for the
\* handlers of the panel)
handler_body(o, h, present) ==
    CASE h = "pause" -> pause_toggle(o, present)
      [] h = "budget" -> budget_submit(o, present)
      [] OTHER -> disable_then_check(o, h, present)

\* the success callback of the request of handler h
on_request_success(o, h, attached) ==
    CASE h \in {"budget", "pause"} ->
            \* load_agents() replaces the row before the button is enabled
            LET o1 == load_agents([o EXCEPT !.error = "success"])
            IN prop_disabled_held(o1, h, attached /\ ~o.overlay_is_open, FALSE)
      [] h \in {"create", "attach"} ->
            prop_disabled_held(load_agents([o EXCEPT !.error = "success"]),
                               h, attached, FALSE)
      [] h = "block_create" ->
            prop_disabled_held([load_memory_blocks(o) EXCEPT !.error = "success"],
                               h, attached, FALSE)
      [] OTHER ->
            \* save and delete keep the button disabled for the reload
            [load_memory_blocks(o) EXCEPT !.error = "success"]

\* the error callback of the request of handler h
on_request_error(o, h, attached) ==
    prop_disabled_held([o EXCEPT !.error = "server"], h, attached, FALSE)

(***************************************************************************)
(* The agents list of agents_overlay_ui.  The response to the list request *)
(* is [t, agents, items]: an object with its agents field, a top-level     *)
(* array with its items, or another value.  An entry is [t, id, name],     *)
(* with JUndef for a key the entry does not have.  listing holds whether   *)
(* the list is loading, the response last received and the agents          *)
(* rendered from it.                                                       *)
(***************************************************************************)
\* the longest array of entries in a response
MaxAgents == 2

\* {agents: a}
Wrapped(a) == [t |-> "object", agents |-> a, items |-> <<>>]
\* a top-level array
TopLevel(q) == [t |-> "array", agents |-> NoList, items |-> q]
\* a response that is neither
Scalar(tag) == [t |-> tag, agents |-> NoList, items |-> <<>>]

AgentEntry(id, name) == [t |-> "object", id |-> id, name |-> name]
NoEntry(tag) == [t |-> tag, id |-> JUndef, name |-> JUndef]

ListingStart ==
    [loading |-> FALSE, answered |-> FALSE, data |-> Scalar("undefined"),
     agents |-> <<>>, error |-> ""]

\* {id: ..., name: ..., ...agent}: the keys of the entry come last and
\* take the place of the two computed ones
WithDefaults(agent) ==
    LET id == agent.id
        name == agent.name
        computed_id == IF (IsNumber(id) \/ IsString(id)) /\ id # JStr("")
                       THEN id ELSE JStr("")
        computed_name == IF IsString(name) THEN name ELSE JStr("(unnamed)")
    IN [agent EXCEPT !.id = IF id # JUndef THEN id ELSE computed_id,
                     !.name = IF name # JUndef THEN name ELSE computed_name]

\* .filter(object).map(...).filter(id !== "")
AgentsOf(q) ==
    LET objects == SelectSeq(q, LAMBDA a : a.t = "object")
        mapped == [i \in 1..Len(objects) |-> WithDefaults(objects[i])]
    IN SelectSeq(mapped, LAMBDA a : a.id # JStr(""))

extract_agents(data) ==
    IF data.t \in {"object", "array"} /\ IsArray(data.agents)
    THEN AgentsOf(data.agents.items)
    ELSE IF IsArray(data) THEN AgentsOf(data.items)
    ELSE <<>>

(***************************************************************************)
(* One widget instance and the host that drives it.                        *)
(*                                                                         *)
(*   pc         where the widget is: "new" before activate, "idle" between *)
(*              calls, "loop" inside the for loop of handle_events,        *)
(*              "render" at the render() after the loop, "inert" when      *)
(*              activate returned the no-op handler                        *)
(*   state      the closure variable state of activate                     *)
(*   remaining  events of the current batch the loop has not reached       *)
(*   threw      an exception left the current (or the last) call           *)
(*   dropped    events of this call that failed the schema                 *)
(*   folded     events of this call the reducer has folded into state      *)
(*   renders    render() calls made by this call                           *)
(*   last       the last step: its operation, the branch taken, the log    *)
(*              call made                                                  *)
(*   base, chunks   the output when it was last replaced and the chunks    *)
(*              appended since, in arrival order                           *)
(*   installed  the extra_data the state was last normalized from          *)
(*   painted    what the last render() handed to the template              *)
(*   sent       the messages the last step passed to opts.callback         *)
(*                                                                         *)
(* The DOM under the root element opts.$elem[0], which is the same element *)
(* for the life of the widget, and the highlighting passes render() starts *)
(* on it:                                                                  *)
(*                                                                         *)
(*   loader     starry_night_promise: "none" while unset, then "pending",  *)
(*              then "ready" or "failed" for good                          *)
(*   flag       the root carries data-highlight-error="1"                  *)
(*   mounts     the code nodes of every subtree .html() has put under the  *)
(*              root, the last one being the one mounted now               *)
(*   marked     the nodes <<mount, position>> that carry                   *)
(*              data-highlight="starry-night"                              *)
(*   passes     the calls of apply_sp_ai_highlighting that have not        *)
(*              returned, in the order they were made                      *)
(*                                                                         *)
(* What stands beside the widget:                                          *)
(*                                                                         *)
(*   copied     the text the last click on a copy button handed to         *)
(*              copy_text, as <<text>>, or <<>>                            *)
(*   mem        the module state and the page of location_memory_ui        *)
(*   fb         one run of post_with_fallback or archive_with_fallback     *)
(*   overlay    the buttons and requests of the agents overlay             *)
(*   listing    a response to the agents request and what extract_agents   *)
(*              made of it                                                 *)
(***************************************************************************)
VARIABLES pc, state, remaining, threw, dropped, folded, renders, last, base, chunks,
          installed, painted, sent, loader, flag, mounts, marked, passes,
          copied, mem, fb, overlay, listing

widget_vars == <<pc, state, remaining, threw, dropped, folded, renders, base, chunks,
                 installed, painted>>

dom_vars == <<loader, flag, mounts, marked, passes>>

aside_vars == <<copied, mem, fb, overlay, listing>>

\* the widget with its DOM
core_vars == <<widget_vars, last, sent, dom_vars>>

vars == <<widget_vars, last, sent, dom_vars, copied, mem, fb, overlay, listing>>

Did(op, branch, logged) == [op |-> op, branch |-> branch, logged |-> logged]

Init ==
    /\ pc = "new"
    /\ state = NoState
    /\ remaining = 0
    /\ threw = FALSE
    /\ dropped = 0
    /\ folded = 0
    /\ renders = 0
    /\ last = Did("none", "", "")
    /\ base = ""
    /\ chunks = ""
    /\ installed = JUndef
    /\ painted = NotPainted
    /\ sent = <<>>
    /\ loader = "none"
    /\ flag = FALSE
    /\ mounts = <<>>
    /\ marked = {}
    /\ passes = <<>>
    /\ copied = NoCopy
    /\ mem = MemStart
    /\ fb = FbStart
    /\ overlay = OverlayStart
    /\ listing = ListingStart

\* a null check that still renders once before it returns the no-op handler
ActivateNull_renders ==
    /\ pc' = "inert"
    /\ state' = NoState
    /\ renders' = 1
    /\ base' = ""
    /\ last' = Did("activate", "null", "error")

\* the null check of activate: blueslip.error and the no-op handler
ActivateNull ==
    /\ pc' = "inert"
    /\ state' = NoState
    /\ renders' = 0
    /\ base' = ""
    /\ last' = Did("activate", "null", "error")

\* let state = normalize_extra_data(...), then the first render()
ActivateWith(r) ==
    /\ pc' = "idle"
    /\ state' = r.state
    /\ renders' = 1
    /\ base' = r.state.output
    /\ last' = Did("activate", "normalize", IF r.warned THEN "warn" ELSE "")

\* what activate(opts) does to the variables of the widget
Activation(extra_data) ==
    /\ pc = "new"
    /\ IF extra_data.t = "null" THEN ActivateNull
       ELSE ActivateWith(normalize_extra_data(extra_data))
    /\ chunks' = ""
    /\ installed' = extra_data
    /\ painted' = IF extra_data.t = "null" THEN NotPainted ELSE render(state')
    /\ sent' = <<>>
    /\ UNCHANGED <<remaining, threw, dropped, folded>>

\* activate(opts); what its render() does to the DOM under the root is
\* followed in Spec_hl
Activate(extra_data) ==
    Activation(extra_data) /\ UNCHANGED dom_vars /\ UNCHANGED aside_vars

\* the host calls handle_events with a batch of n events
Call(n) ==
    /\ pc = "idle"
    /\ pc' = IF n = 0 THEN "render" ELSE "loop"
    /\ remaining' = n
    /\ threw' = FALSE
    /\ dropped' = 0
    /\ folded' = 0
    /\ renders' = 0
    /\ last' = Did("call", "", "")
    /\ sent' = <<>>
    /\ UNCHANGED <<state, base, chunks, installed, painted>>
    /\ UNCHANGED dom_vars
    /\ UNCHANGED aside_vars

\* the batches the host hands to the no-op handler: none, one well-formed
\* set_extra_data, two events that would change a live widget
NoopBatches ==
    {<<>>, <<SetExtraData(ExtraData)>>, <<SetStatus(JStr("ok")), SetOutput(JStr("b"))>>}

\* the host calls the handler of a widget activated with null; the handler has
\* an empty body and does not look at its events
CallNoop(events) ==
    /\ pc = "inert"
    /\ last' = Did("noop", IF events = <<>> THEN "" ELSE events[1].type.s, "")
    /\ sent' = <<>>
    /\ UNCHANGED widget_vars
    /\ UNCHANGED dom_vars
    /\ UNCHANGED aside_vars

\* the output a batch would build fits the bound of the model
Fits(data) ==
    data.type = JStr("append_output") /\ IsString(data.chunk)
        => Len(state.output) + Len(data.chunk.s) <= MaxOutLen

\* what one iteration of the loop leaves behind, r being what the loop body did
\* with event.data
Iterate(r, data) ==
    /\ state' = r.state
    /\ threw' = r.threw
    /\ remaining' = remaining - 1
    /\ pc' = AfterIteration(r.threw, remaining - 1)
    /\ dropped' = IF r.branch = "dropped" THEN dropped + 1 ELSE dropped
    /\ folded' = IF r.branch = "dropped" \/ r.threw THEN folded ELSE folded + 1
    /\ last' = Did("event", r.branch, IF r.warned THEN "warn" ELSE "")
    /\ base' = IF r.branch \in {"set_output", "set_extra_data"} /\ ~r.threw
               THEN r.state.output ELSE base
    /\ chunks' = IF r.branch \in {"set_output", "set_extra_data"} /\ ~r.threw THEN ""
                 ELSE IF r.branch = "append_output" THEN chunks \o data.chunk.s
                 ELSE chunks
    /\ installed' = IF r.branch = "set_extra_data" /\ ~r.threw THEN data.extra_data
                    ELSE installed
    /\ sent' = <<>>
    /\ UNCHANGED <<renders, painted>>

\* one iteration of the loop over the next event of the batch
Consider(data) ==
    /\ pc = "loop"
    /\ Fits(data)
    /\ Iterate(LoopBody(state, data), data)
    /\ UNCHANGED dom_vars
    /\ UNCHANGED aside_vars

\* render() left to paint what Paint computes from state
Rendering(Paint(_)) ==
    /\ pc = "render"
    /\ pc' = "idle"
    /\ renders' = renders + 1
    /\ last' = Did("render", "", "")
    /\ painted' = Paint(state)
    /\ sent' = <<>>
    /\ UNCHANGED <<state, remaining, threw, dropped, folded, base, chunks, installed>>

\* the data-action values a clicked button can carry: the four of the
\* template, another word, and "" for a button without a value
ClickedValues == {"abort", "retry", "approve", "deny", "reset", ""}

\* the messages the click handler of button[data-action] passes to opts.callback
\* when it forwards whatever value the button carries
on_action_click_any(action) == <<[type |-> "action", action |-> action]>>

\* the messages the click handler of button[data-action] passes to opts.callback
on_action_click(action) ==
    IF action = "abort" \/ action = "retry" \/ action = "approve" \/ action = "deny"
    THEN <<[type |-> "action", action |-> action]>>
    ELSE <<>>

\* the user clicks a button[data-action] of the last render; the handler runs
\* between two calls of the host
Click(action) ==
    /\ pc = "idle"
    /\ painted.shown
    /\ sent' = on_action_click(action)
    /\ last' = Did("click", action, "")
    /\ UNCHANGED widget_vars
    /\ UNCHANGED dom_vars
    /\ UNCHANGED aside_vars

\* the render() after the loop; what it does to the DOM under the root is
\* followed in Spec_hl
Render == Rendering(render) /\ UNCHANGED dom_vars /\ UNCHANGED aside_vars

Next ==
    \/ \E extra_data \in CreationPayloads : Activate(extra_data)
    \/ \E n \in 0..MaxBatch : Call(n)
    \/ \E events \in NoopBatches : CallNoop(events)
    \/ \E data \in Events : Consider(data)
    \/ Render
    \/ \E action \in ClickedValues : Click(action)

Spec == Init /\ [][Next]_vars

(***************************************************************************)
(* The same host driving the widget of src/web/src/sp_ai_widget.ts.        *)
(***************************************************************************)
\* activate(opts) of that widget
Activate_web(extra_data) ==
    /\ pc = "new"
    /\ IF extra_data.t = "null" THEN ActivateNull
       ELSE ActivateWith(normalize_extra_data_web(extra_data))
    /\ chunks' = ""
    /\ installed' = extra_data
    /\ painted' = IF extra_data.t = "null" THEN NotPainted ELSE render_web(state')
    /\ sent' = <<>>
    /\ UNCHANGED <<remaining, threw, dropped, folded>>
    /\ UNCHANGED dom_vars
    /\ UNCHANGED aside_vars

\* one iteration of the loop of its handle_events
Consider_web(data) ==
    /\ pc = "loop"
    /\ Fits(data)
    /\ Iterate(LoopBody_web(state, data), data)
    /\ UNCHANGED dom_vars
    /\ UNCHANGED aside_vars

\* the render() after the loop of its handle_events
Render_web == Rendering(render_web) /\ UNCHANGED dom_vars /\ UNCHANGED aside_vars

Next_web ==
    \/ \E extra_data \in CreationPayloads : Activate_web(extra_data)
    \/ \E n \in 0..MaxBatch : Call(n)
    \/ \E events \in NoopBatches : CallNoop(events)
    \/ \E data \in Events : Consider_web(data)
    \/ Render_web

Spec_web == Init /\ [][Next_web]_vars

(***************************************************************************)
(* Syntax highlighting.  render() replaces the children of the root with   *)
(* opts.$elem.html(html) and then calls apply_sp_ai_highlighting(root)     *)
(* without awaiting it.  The call runs up to its first await inside        *)
(* render(); what follows an await runs later, as a microtask when the     *)
(* awaited promise is already settled, so that a pass is overtaken by a    *)
(* call of the host only while it waits for starry_night_promise.  The     *)
(* template that produces the code nodes is not among the sources, so the  *)
(* code nodes of a rendered subtree are an input of render().              *)
(*                                                                         *)
(* A code node is "code" (matches .sp-ai-tool-code[data-language] or       *)
(* .sp-ai-pre[data-language] and names a language), "bare" (the same with  *)
(* an empty data-language) or "md" (a code element of a div.codehilite     *)
(* inside rendered markdown).  A node is named <<mount, position>>.        *)
(***************************************************************************)
\* the most subtrees mounted under one root
MaxMounts == 3

RenderedSubtrees ==
    {<<>>, <<"code">>, <<"md">>, <<"code", "md">>, <<"bare", "code">>}

\* Array.from(root.querySelectorAll(selector)) over the subtree mounted as
\* number gen, kinds being the kinds of node the selector matches
QuerySelectorAll(gen, subtree, kinds) ==
    LET positions == SelectSeq([k \in 1..Len(subtree) |-> k],
                               LAMBDA k : subtree[k] \in kinds)
    IN [j \in 1..Len(positions) |-> <<gen, positions[j]>>]

\* a call of apply_sp_ai_highlighting that starts a pass whatever the root says
apply_sp_ai_highlighting_retries(running, error_flag, gen, subtree) ==
    Append(running, [gen |-> gen, phase |-> 1, waiting |-> FALSE,
                     todo |-> QuerySelectorAll(gen, subtree, {"code", "bare"})])

\* apply_sp_ai_highlighting(root) up to the first loop: it returns at once when
\* the root carries data-highlight-error, else it collects the code nodes
apply_sp_ai_highlighting(running, error_flag, gen, subtree) ==
    IF error_flag THEN running
    ELSE Append(running, [gen |-> gen, phase |-> 1, waiting |-> FALSE,
                          todo |-> QuerySelectorAll(gen, subtree, {"code", "bare"})])

\* opts.$elem.html(html) and the call of apply_sp_ai_highlighting in render()
Mount(subtree) ==
    /\ mounts' = Append(mounts, subtree)
    /\ passes' = apply_sp_ai_highlighting(passes, flag, Len(mounts) + 1, subtree)
    /\ UNCHANGED <<loader, flag, marked>>

\* what activate hands to the widget here
HlPayloads == {ExtraData}

\* the events the host delivers here
HlEvents == {SetStatus(JStr("ok")), SetExtraData(NotExtraData("null"))}

\* activate(opts) with its first render()
Activate_hl(extra_data, subtree) ==
    Activation(extra_data) /\ Mount(subtree) /\ UNCHANGED aside_vars

\* no pass can run: each one waits for starry_night_promise
Settled == \A i \in 1..Len(passes) : passes[i].waiting

\* the host calls handle_events; a pass that can run has run before
Call_hl(n) ==
    /\ Settled
    /\ Len(mounts) < MaxMounts
    /\ Call(n)

\* the render() after the loop, with what it does under the root
Render_hl(subtree) == Rendering(render) /\ Mount(subtree) /\ UNCHANGED aside_vars

\* the step of a pass: what it did, and whether the subtree it was started
\* for is still the one mounted
PassDid(p, branch, logged) ==
    Did(IF p.gen < Len(mounts) THEN "stale_pass" ELSE "pass", branch, logged)

Without(i) == SubSeq(passes, 1, i - 1) \o SubSeq(passes, i + 1, Len(passes))

\* the catch block: the flag goes on the root the pass was called with and
\* blueslip.warn is called
PassThrows(i) ==
    /\ flag' = TRUE
    /\ passes' = Without(i)
    /\ last' = PassDid(passes[i], "throw", "warn")
    /\ UNCHANGED <<loader, marked>>

\* the pass goes on to the node after the head of its list
PassMovesOn(i, branch) ==
    /\ passes' = [passes EXCEPT ![i].todo = Tail(@)]
    /\ last' = PassDid(passes[i], branch, "")

\* pass i runs from one await to the next; outcome is what starry-night does
\* with the text of the node
PassStep(i, outcome) ==
    /\ pc = "idle"
    /\ i \in 1..Len(passes)
    /\ ~passes[i].waiting
    /\ sent' = <<>>
    /\ UNCHANGED widget_vars
    /\ UNCHANGED aside_vars
    /\ UNCHANGED mounts
    /\ LET p == passes[i]
           node == Head(p.todo)
       IN IF p.todo = <<>> /\ p.phase = 1
          THEN \* the second querySelectorAll, on what is under the root now
               /\ passes' = [passes EXCEPT
                                ![i].phase = 2,
                                ![i].todo = QuerySelectorAll(Len(mounts),
                                                             mounts[Len(mounts)],
                                                             {"md"})]
               /\ last' = PassDid(p, "query", "")
               /\ UNCHANGED <<loader, flag, marked>>
          ELSE IF p.todo = <<>>
          THEN /\ passes' = Without(i)
               /\ last' = PassDid(p, "return", "")
               /\ UNCHANGED <<loader, flag, marked>>
          ELSE IF node \in marked
          THEN PassMovesOn(i, "continue") /\ UNCHANGED <<loader, flag, marked>>
          ELSE IF mounts[node[1]][node[2]] = "bare"
          THEN PassMovesOn(i, "no_language") /\ UNCHANGED <<loader, flag, marked>>
          ELSE IF loader \in {"none", "pending"}
          THEN \* await get_starry_night(), which sets the promise when unset
               /\ loader' = "pending"
               /\ passes' = [passes EXCEPT ![i].waiting = TRUE]
               /\ last' = PassDid(p, "await", "")
               /\ UNCHANGED <<flag, marked>>
          ELSE IF loader = "failed" \/ outcome = "throw"
          THEN PassThrows(i)
          ELSE IF outcome = "no_scope"
          THEN PassMovesOn(i, "no_scope") /\ UNCHANGED <<loader, flag, marked>>
          ELSE \* elem.replaceChildren(frag), elem.setAttribute("data-highlight", ...)
               /\ marked' = marked \cup {node}
               /\ PassMovesOn(i, "highlight")
               /\ UNCHANGED <<loader, flag>>

\* starry_night_promise settles and the passes that wait for it can run
LoaderSettles(result) ==
    /\ pc = "idle"
    /\ Settled
    /\ loader = "pending"
    /\ loader' = result
    /\ passes' = [i \in 1..Len(passes) |-> [passes[i] EXCEPT !.waiting = FALSE]]
    /\ last' = Did("loader", result, "")
    /\ sent' = <<>>
    /\ UNCHANGED widget_vars
    /\ UNCHANGED aside_vars
    /\ UNCHANGED <<flag, mounts, marked>>

Next_hl ==
    \/ \E extra_data \in HlPayloads, subtree \in RenderedSubtrees :
           Activate_hl(extra_data, subtree)
    \/ \E n \in 0..1 : Call_hl(n)
    \/ \E data \in HlEvents : Consider(data)
    \/ \E subtree \in RenderedSubtrees : Render_hl(subtree)
    \/ \E i \in 1..MaxMounts, outcome \in {"highlight", "throw", "no_scope"} :
           PassStep(i, outcome)
    \/ \E result \in {"ready", "failed"} : LoaderSettles(result)

Spec_hl == Init /\ [][Next_hl]_vars

(***************************************************************************)
(* The copy button of a background task.  render() binds the handler to    *)
(* the buttons of the markup it has just produced; the handler reads the   *)
(* closure variable state when the click comes.                            *)
(***************************************************************************)
\* a second background block: four tasks, the third with nothing to show
BuildBlock ==
    [Block EXCEPT
        !.raw = "{build}", !.kind = JStr("background_tasks"), !.title = JStr("Build"),
        !.tasks = List(<<[Task EXCEPT !.command = JStr("pwd")],
                         [Task EXCEPT !.description = JStr("d")],
                         [Task EXCEPT !.status = JStr("running")],
                         [Task EXCEPT !.command = JStr("make"),
                                      !.runtimeSec = JNum(61)]>>)]

\* a turn with an empty and two filled background blocks, two plan blocks
\* and two todo blocks
TasksTurn ==
    [Turn EXCEPT
        !.kind = JStr("tool"), !.status = JStr("running"), !.title = JStr("Jobs"),
        !.blocks = List(<<EmptyBackgroundBlock, BackgroundBlock, TextBlock, BuildBlock,
                          PlanBlock, EmptyPlanBlock, LegacyPlanBlock, TodoBlock,
                          [TodoBlock EXCEPT !.title = JStr("Later")]>>)]

CpPayloads ==
    {ExtraData, [ExtraData EXCEPT !.turn = TasksTurn],
     [ExtraData EXCEPT !.turn = GroupsTurn], [ExtraData EXCEPT !.turn = TwinsTurn],
     [ExtraData EXCEPT !.display = JStr("wide"), !.turn = TasksTurn]}

CpEvents ==
    {SetExtraData(ed) : ed \in CpPayloads}
        \cup {SetExtraData(NotExtraData("null")), SetStatus(JStr("ok")),
              SetStatus(JStr("bogus"))}

\* the two parts of a data-copy-bg-task-command attribute
RawIndexes == {"0", "1", "2", "3", "x"}

\* the user clicks a button[data-copy-bg-task-command] whose attribute is
\* raw_group:raw_task
ClickCopyTask(raw_group, raw_task) ==
    /\ pc = "idle"
    /\ painted.shown
    /\ copied' = [group |-> raw_group, task |-> raw_task,
                  text |-> copy_bg_task_command(state, raw_group, raw_task)]
    /\ last' = Did("copy", raw_group \o ":" \o raw_task, "")
    /\ sent' = <<>>
    /\ UNCHANGED widget_vars
    /\ UNCHANGED dom_vars
    /\ UNCHANGED <<mem, fb, overlay, listing>>

Next_cp ==
    \/ \E extra_data \in CpPayloads : Activate(extra_data)
    \/ \E n \in 0..2 : Call(n)
    \/ \E data \in CpEvents : Consider(data)
    \/ Render
    \/ \E raw_group \in RawIndexes, raw_task \in RawIndexes :
           ClickCopyTask(raw_group, raw_task)

Spec_cp == Init /\ [][Next_cp]_vars

(***************************************************************************)
(* The location memory section of one page.  A request is answered at any  *)
(* time after it was sent, in any order with the others.                   *)
(***************************************************************************)
\* q without its element i
Dropped(q, i) == SubSeq(q, 1, i - 1) \o SubSeq(q, i + 1, Len(q))

\* a step of location_memory_ui leaves the widget alone
MemStep(op, branch, logged) ==
    /\ last' = Did(op, branch, logged)
    /\ UNCHANGED <<widget_vars, sent, dom_vars>>
    /\ UNCHANGED <<copied, fb, overlay, listing>>

\* launch(...) calls load_memory(context)
LoadMemory(context) ==
    /\ mem.loads < MaxLoads
    /\ mem' = load_memory(mem, context)
    /\ MemStep("load", context, "")

\* the response to the load request gets[i] arrives: data.text is the text
\* of the context when with_text, and no string otherwise
LoadSucceeds(i, with_text) ==
    /\ i \in 1..Len(mem.gets)
    /\ LET context == mem.gets[i]
           data == [text |-> IF with_text THEN JStr(ServerText(context)) ELSE JNull]
           m == load_success(mem, data)
       IN mem' = [m EXCEPT !.gets = Dropped(@, i),
                           !.answer[context] = m.textarea,
                           !.overtaken = @ \/ i > 1]
    /\ MemStep("load_ok", mem.gets[i], "")

\* the load request gets[i] fails
LoadFails(i) ==
    /\ i \in 1..Len(mem.gets)
    /\ mem' = [load_error(mem) EXCEPT !.gets = Dropped(@, i),
                                      !.answer[mem.gets[i]] = "",
                                      !.overtaken = @ \/ i > 1]
    /\ MemStep("load_failed", mem.gets[i], "error")

\* the user types into the textarea
Type(text) ==
    /\ mem.current_context # ""
    /\ ~mem.textarea_disabled
    /\ mem.textarea # text
    /\ mem' = [mem EXCEPT !.textarea = text]
    /\ MemStep("type", text, "")

\* save_memory() is called: by the click on the save button, or by another
\* module, for it is exported
SaveMemory ==
    /\ mem.saves < MaxSaves
    /\ mem' = save_memory(mem).mem
    /\ MemStep("save", save_memory(mem).branch,
               IF save_memory(mem).branch = "no_context" THEN "error" ELSE "")

\* the save request is answered with success
SaveSucceeds ==
    /\ mem.posts # <<>>
    /\ mem' = [save_success(mem) EXCEPT !.posts = Tail(@)]
    /\ MemStep("save_ok", "", "")

\* the save request fails
SaveFails ==
    /\ mem.posts # <<>>
    /\ mem' = [save_error(mem) EXCEPT !.posts = Tail(@)]
    /\ MemStep("save_failed", "", "error")

\* setTimeout(clear_error, 2000) fires
TimerFires ==
    /\ mem.timers > 0
    /\ mem' = [clear_error(mem) EXCEPT !.timers = @ - 1]
    /\ MemStep("timer", "", "")

Next_mem ==
    \/ \E context \in Contexts : LoadMemory(context)
    \/ \E i \in 1..MaxLoads, with_text \in BOOLEAN : LoadSucceeds(i, with_text)
    \/ \E i \in 1..MaxLoads : LoadFails(i)
    \/ \E text \in TypedTexts : Type(text)
    \/ SaveMemory
    \/ SaveSucceeds
    \/ SaveFails
    \/ TimerFires

Spec_mem == Init /\ [][Next_mem]_vars

(***************************************************************************)
(* One call of post_with_fallback or archive_with_fallback.  Each request  *)
(* is answered with success or with a failure status.                      *)
(***************************************************************************)
UrlNames == {"/json/smarty_pants/agents", "/json/smarty_pants/agents/attach"}

RECURSIVE UrlLists(_)
UrlLists(n) ==
    IF n = 0 THEN {<<>>}
    ELSE UrlLists(n - 1) \cup
         {Append(q, u) : q \in {r \in UrlLists(n - 1) : Len(r) = n - 1}, u \in UrlNames}

PostData == {"{name}", "{runtime_agent_id}"}

FailureStatuses == {0, 404, 500}

\* a step of the fallback functions leaves the rest alone
FbStep(op, branch, logged) ==
    /\ last' = Did(op, branch, logged)
    /\ UNCHANGED <<widget_vars, sent, dom_vars>>
    /\ UNCHANGED <<copied, mem, overlay, listing>>

CallPost(urls, data) ==
    /\ fb.kind = "none"
    /\ fb' = post_with_fallback(
                [fb EXCEPT !.kind = "post", !.given = urls, !.data = data],
                urls, data)
    /\ FbStep("post_with_fallback", data, "")

CallArchive(urls) ==
    /\ fb.kind = "none"
    /\ fb' = archive_with_fallback(
                [fb EXCEPT !.kind = "archive", !.given = urls, !.data = "{}"],
                urls)
    /\ FbStep("archive_with_fallback", "", "")

\* the unanswered request succeeds
FbSucceeds ==
    /\ fb.open
    /\ fb' = fallback_success([fb EXCEPT !.answers = Append(@, 200)])
    /\ FbStep("answer", "200", "")

\* the unanswered request fails with the status
FbFails(status) ==
    /\ fb.open
    /\ fb' = IF fb.kind = "post"
             THEN post_error([fb EXCEPT !.answers = Append(@, status)], status)
             ELSE archive_error([fb EXCEPT !.answers = Append(@, status)], status)
    /\ FbStep("answer", IF status = 404 THEN "404" ELSE "failed", "")

FbAnswered == FbSucceeds \/ \E status \in FailureStatuses : FbFails(status)

Next_fb ==
    \/ \E urls \in UrlLists(MaxUrls), data \in PostData : CallPost(urls, data)
    \/ \E urls \in UrlLists(MaxUrls) : CallArchive(urls)
    \/ FbSucceeds
    \/ \E status \in FailureStatuses : FbFails(status)

\* every request is answered in the end
Spec_fb == Init /\ [][Next_fb]_vars /\ WF_vars(FbAnswered)

(***************************************************************************)
(* The agents overlay: it is launched and closed, the memory blocks panel  *)
(* is shown and closed, the user triggers the handlers through the buttons *)
(* that are enabled, and the requests are answered in any order.           *)
(***************************************************************************)
OverlayStep(op, branch, logged) ==
    /\ last' = Did(op, branch, logged)
    /\ UNCHANGED <<widget_vars, sent, dom_vars>>
    /\ UNCHANGED <<copied, mem, fb, listing>>

\* launch(): the whole overlay is rendered anew
Launch ==
    /\ ~overlay.overlay_is_open
    /\ overlay' = load_agents(
                     ButtonsReplaced([overlay EXCEPT !.overlay_is_open = TRUE,
                                              !.error = ""], Handlers))
    /\ OverlayStep("launch", "", "")

\* on_close of the overlay
CloseOverlay ==
    /\ overlay.overlay_is_open
    /\ overlay' = [overlay EXCEPT !.overlay_is_open = FALSE, !.panel = FALSE]
    /\ OverlayStep("close", "", "")

\* the click on .manage-memory-blocks-button of a row with an agent id:
\* show_memory_blocks_panel
ShowPanel ==
    /\ overlay.overlay_is_open
    /\ overlay' = load_memory_blocks(
                     ButtonsReplaced([overlay EXCEPT !.panel = TRUE], PanelButtons))
    /\ OverlayStep("show_panel", "", "")

\* the click on .close-memory-blocks-button: hide_memory_blocks_panel
HidePanel ==
    /\ overlay.overlay_is_open
    /\ overlay.panel
    /\ overlay' = ButtonsReplaced([overlay EXCEPT !.panel = FALSE], PanelButtons)
    /\ OverlayStep("hide_panel", "", "")

\* the user triggers handler h through its button; present tells whether
\* the id or the field the handler needs is there
Trigger(h, present) ==
    /\ overlay.overlay_is_open
    /\ ~overlay.disabled[h]
    /\ h \in PanelButtons => overlay.panel
    /\ Len(overlay.requests) < MaxRequests
    /\ overlay' = handler_body(overlay, h, present)
    /\ OverlayStep(h, IF present THEN "request" ELSE "missing",
                   IF present THEN "" ELSE "error")

\* the request requests[i] is answered
Answer(i, ok) ==
    /\ i \in 1..Len(overlay.requests)
    /\ LET r == overlay.requests[i]
           o == [overlay EXCEPT !.requests = Dropped(@, i)]
       IN /\ overlay' = IF ok THEN on_request_success(o, r.handler, r.attached)
                               ELSE on_request_error(o, r.handler, r.attached)
          /\ OverlayStep(r.handler, IF ok THEN "success" ELSE "failed",
                         IF ok THEN "" ELSE "error")

Next_btn ==
    \/ Launch
    \/ CloseOverlay
    \/ ShowPanel
    \/ HidePanel
    \/ \E h \in Handlers, present \in BOOLEAN : Trigger(h, present)
    \/ \E i \in 1..MaxRequests, ok \in BOOLEAN : Answer(i, ok)

Spec_btn == Init /\ [][Next_btn]_vars

(***************************************************************************)
(* The agents list is requested and the response is rendered.              *)
(***************************************************************************)
EntryIds == {JUndef, JNull, JStr(""), JStr("a1"), JNum(7), JBool(TRUE)}
EntryNames == {JUndef, JStr("Ada"), JNum(5)}

Entries ==
    {AgentEntry(id, name) : id \in EntryIds, name \in EntryNames}
        \cup {NoEntry("null"), NoEntry("string")}

RECURSIVE EntryLists(_)
EntryLists(n) ==
    IF n = 0 THEN {<<>>}
    ELSE EntryLists(n - 1) \cup
         {Append(q, a) : q \in {r \in EntryLists(n - 1) : Len(r) = n - 1}, a \in Entries}

Responses ==
    {Wrapped(List(q)) : q \in EntryLists(MaxAgents)}
        \cup {TopLevel(q) : q \in EntryLists(MaxAgents)}
        \cup {Wrapped(NoList), Wrapped(NotAList("string")),
              Scalar("null"), Scalar("string"), Scalar("number")}

ListStep(op, branch, logged) ==
    /\ last' = Did(op, branch, logged)
    /\ UNCHANGED <<widget_vars, sent, dom_vars>>
    /\ UNCHANGED <<copied, mem, fb, overlay>>

\* load_agents() in the open overlay: clear_error, set_loading_state and
\* the request
ListRequested ==
    /\ ~listing.loading
    /\ listing' = [ListingStart EXCEPT !.loading = TRUE]
    /\ ListStep("load_agents", "", "")

\* the success callback: render_list(extract_agents(data))
ListAnswered(data) ==
    /\ listing.loading
    /\ listing' = [listing EXCEPT !.loading = FALSE, !.answered = TRUE,
                                  !.data = data,
                                  !.agents = extract_agents(data)]
    /\ ListStep("list", data.t, "")

\* the error callback: the error and render_list([])
ListFailed ==
    /\ listing.loading
    /\ listing' = [listing EXCEPT !.loading = FALSE, !.error = "server",
                                  !.agents = <<>>]
    /\ ListStep("list", "failed", "error")

Next_list ==
    \/ ListRequested
    \/ \E data \in Responses : ListAnswered(data)
    \/ ListFailed

Spec_list == Init /\ [][Next_list]_vars

(***************************************************************************)
(* Properties.                                                             *)
(***************************************************************************)
\* activate has built a state
HasState == pc \notin {"new", "inert"}

\* the fields of WidgetState
StateFields ==
    {"version", "display", "kind", "title", "caption", "status", "tool", "input", "output",
     "blocks", "parallel", "turn_kind", "turn_kind_label",
     "has_subagent_groups", "subagent_section_title", "subagent_groups",
     "has_background_tasks", "background_tasks_section_title", "background_task_groups",
     "has_plan_blocks", "plan_section_title", "plan_groups",
     "has_todo_blocks", "todo_section_title", "todo_groups"}

\* after has the fields of before, with the same values except for field
SameExcept(after, before, field) ==
    /\ DOMAIN after = DOMAIN before
    /\ \A f \in DOMAIN before \ {field} : after[f] = before[f]

\* C1: a schema-valid set_status event with status s, applied to any state the
\* widget reaches, is handled by the set_status branch and gives a state whose
\* status is s and whose every other field has the value it had before.
C1_SetStatusFrame ==
    HasState =>
        /\ DOMAIN state = StateFields
        /\ \A st \in StatusEnum :
              LET r == LoopBody(state, SetStatus(JStr(st)))
              IN /\ r.branch = "set_status" /\ ~r.threw
                 /\ r.state.status = st
                 /\ SameExcept(r.state, state, "status")

\* a set_status event has just been folded into a tool card that has blocks
\* and an output
C1_Witness ==
    /\ last = Did("event", "set_status", "")
    /\ state.status = "error" /\ state.kind = "tool"
    /\ Len(state.blocks) = 2 /\ state.output = "b"

\* C2: a schema-valid set_output event with string o, applied to any state the
\* widget reaches, gives a state whose output is exactly o (nothing of the
\* previous output is kept) and whose every other field is unchanged.
C2_SetOutputFrame ==
    HasState =>
        \A o \in {"", "a", "b", "ab"} :
            LET r == LoopBody(state, SetOutput(JStr(o)))
            IN /\ r.branch = "set_output" /\ ~r.threw
               /\ r.state.output = o
               /\ SameExcept(r.state, state, "output")

\* a set_output event has just replaced the output of a tool card whose payload
\* carried an output, and the status and the blocks of the card are still there
C2_Witness ==
    /\ last = Did("event", "set_output", "")
    /\ state.output = "" /\ base = ""
    /\ state.kind = "tool" /\ state.status = "pending" /\ Len(state.blocks) = 2

\* C3: append_output is concatenation in arrival order: in any state, appending a
\* and then b gives the output that appending a \o b at once gives, and the
\* output is always the output as it was last replaced followed by the chunks
\* appended since, in the order they arrived.
C3_AppendConcatenates ==
    HasState =>
        /\ state.output = base \o chunks
        /\ \A a \in Chunks, b \in Chunks :
              LoopBody(LoopBody(state, AppendOutput(JStr(a))).state,
                       AppendOutput(JStr(b))).state.output
                  = LoopBody(state, AppendOutput(JStr(a \o b))).state.output

\* chunks "a" and "b" have been appended, in that order, to an empty output
C3_Witness ==
    /\ last = Did("event", "append_output", "")
    /\ base = "" /\ chunks = "ab" /\ state.output = "ab"

\* the state normalize_extra_data gives for the empty payload
EmptyPayloadState == normalize_extra_data(ExtraData).state

\* C4: set_extra_data replaces the state in full: for any payload p the event
\* can carry, the state after set_extra_data(p) does not depend on the state
\* before it, and it is the state normalize_extra_data gives for p.
C4_FullReplace ==
    HasState =>
        \A p \in EventPayloads :
            LET r == LoopBody(state, SetExtraData(p))
            IN /\ r.state = LoopBody(EmptyPayloadState, SetExtraData(p)).state
               /\ (~r.threw => r.state = normalize_extra_data(p).state)

\* C5: an event that fails the event schema (a status outside the enum or
\* missing, a set_output or append_output payload that is no string, an unknown
\* or missing type, a value that is no object) is dropped: every field of the
\* state is as it was, and nothing is thrown.
C5_InvalidEventDropped ==
    HasState =>
        \A data \in InvalidEvents : LoopBody(state, data) = Handled("dropped", state)

\* the loop has just dropped an invalid event that came after a set_status event
\* of the same batch
C5_Witness ==
    /\ last = Did("event", "dropped", "")
    /\ dropped = 1 /\ folded = 1
    /\ state.status = "error" /\ state.kind = "tool"

\* C6: no exception leaves activate or handle_events, whatever extra_data the
\* creation payload or a set_extra_data event carries.
C6_NoException == ~threw

\* C7: after a schema-invalid event the loop goes on to every event that
\* follows it in the batch: a call that dropped an event has reached the end of
\* its batch when it returns.
C7_ContinuesAfterInvalid == (pc = "idle" /\ dropped > 0) => remaining = 0

\* C8, as stated: a render follows each fold, so whenever the loop turns to the
\* next event the call has rendered as often as it has folded.
C8_RenderAfterEachFold == pc = "loop" => renders = folded

\* C8, as the code has it: handle_events does not render inside the loop; it
\* renders once, after the last event of the batch, and not at all when an
\* exception ends the loop.
C8_OneRenderPerBatch ==
    /\ (pc = "loop" => renders = 0)
    /\ (pc = "render" => (renders = 0 /\ remaining = 0 /\ ~threw))
    /\ (last.op = "render" => (renders = 1 /\ remaining = 0 /\ ~threw))
    /\ ((pc = "idle" /\ threw) => renders = 0)

\* a call has folded two events or more and rendered once
C8_Witness == last.op = "render" /\ folded >= 2 /\ renders = 1

\* C9: every event the schema accepts is handled by the branch of its type of
\* the reducer; none reaches the exhaustiveness tail.
C9_ReducerTotal ==
    last.op = "event" =>
        last.branch \in {"dropped", "set_extra_data", "set_status", "set_output",
                         "append_output"}

\* C10: for the empty payload normalize_extra_data returns the documented
\* default state, with no warning: kind final, status running, the texts empty,
\* no blocks, no parallel, the four group lists empty and their flags false.
C10_EmptyPayloadDefault ==
    LET r == normalize_extra_data(ExtraData)
    IN /\ ~r.threw /\ ~r.warned
       /\ DOMAIN r.state = StateFields
       /\ r.state.version = 2 /\ r.state.display = "card_only"
       /\ r.state.kind = "final" /\ r.state.status = "running"
       /\ r.state.title = "Agent output"
       /\ r.state.caption = "" /\ r.state.tool = "" /\ r.state.input = ""
       /\ r.state.output = ""
       /\ r.state.blocks = <<>>
       /\ ~r.state.parallel.defined
       /\ r.state.subagent_groups = <<>> /\ ~r.state.has_subagent_groups
       /\ r.state.background_task_groups = <<>> /\ ~r.state.has_background_tasks
       /\ r.state.plan_groups = <<>> /\ ~r.state.has_plan_blocks
       /\ r.state.todo_groups = <<>> /\ ~r.state.has_todo_blocks

\* the widget has just been activated with the empty payload
C10_Witness ==
    /\ last = Did("activate", "normalize", "")
    /\ state = EmptyPayloadState
    /\ state.kind = "final" /\ state.status = "running" /\ ~state.has_todo_blocks

\* C11: when the candidate fails widget_state_schema and normalize_extra_data
\* warns, the state it substitutes has kind final, status running, empty texts,
\* no blocks, and the four group lists empty with their flags false, whatever
\* blocks the payload carried.
C11_SafeDefaultAllEmpty ==
    (HasState /\ last.logged = "warn") =>
        /\ state.kind = "final" /\ state.status = "running"
        /\ state.caption = "" /\ state.tool = "" /\ state.input = ""
        /\ state.output = "" /\ state.blocks = <<>>
        /\ state.subagent_groups = <<>> /\ ~state.has_subagent_groups
        /\ state.background_task_groups = <<>> /\ ~state.has_background_tasks
        /\ state.plan_groups = <<>> /\ ~state.has_plan_blocks
        /\ state.todo_groups = <<>> /\ ~state.has_todo_blocks

\* C12: every recovery logs: the step that drops a schema-invalid event makes
\* a warning or error log call, as the step that substitutes the safe default
\* state does.
C12_RecoveriesLogged ==
    (last.op = "event" /\ last.branch = "dropped") => last.logged # ""

\* the payload the state was normalized from failed widget_state_schema
InstalledWarned == normalize_extra_data(installed).warned
\* the elements of turn.blocks of that payload
InstalledBlocks == BlocksOf(installed)

\* the index values of flat increase strictly
IndexesIncrease(flat) == \A k \in 1..(Len(flat) - 1) : flat[k].index < flat[k + 1].index
\* the index values of flat, as a set
IndexesOf(flat) == {flat[k].index : k \in 1..Len(flat)}

\* C13: for the turn.blocks array of the payload the state was normalized
\* from, the index values of the flat block list increase strictly, and the
\* original indexes missing from the list are exactly those the four
\* extractors consumed: no unconsumed element, whatever its shape, is left out.
C13_FlatIsComplement ==
    (HasState /\ ~InstalledWarned) =>
        /\ IndexesIncrease(state.blocks)
        /\ IndexesOf(state.blocks)
               = (0..(Len(InstalledBlocks) - 1)) \ SkipBlockIndexes(installed)

\* the kinds the block normalizer knows
RecognizedKinds ==
    {"markdown", "text", "code", "diff", "json", "table", "stream", "context_usage",
     "file_tree", "memory_blocks", "subagent_group", "background_tasks", "bash_tasks",
     "queue", "plan", "todo"}
\* a block object whose kind is absent, no string, or not a recognized kind
UnrecognizedBlock(b) ==
    b.t = "object" /\ ~(IsString(b.kind) /\ b.kind.s \in RecognizedKinds)

\* C14: every block object of the payload whose kind is absent, no string or
\* not recognized has exactly one flat block, at its original index, with
\* is_unknown true and the stringified raw block as its text.
C14_UnknownKindKept ==
    (HasState /\ ~InstalledWarned) =>
        \A i \in 1..Len(InstalledBlocks) :
            UnrecognizedBlock(InstalledBlocks[i]) =>
                \E k \in 1..Len(state.blocks) :
                    /\ state.blocks[k].index = i - 1
                    /\ state.blocks[k].is_unknown
                    /\ state.blocks[k].text = InstalledBlocks[i].raw
                    /\ \A j \in 1..Len(state.blocks) :
                           state.blocks[j].index = i - 1 => j = k

\* a set_extra_data event has just installed a turn with a block of an unknown
\* kind at index 1, a block without kind at index 7 and a block whose kind is
\* a number at index 8, and all three are in the flat list as unknown blocks
C14_Witness ==
    /\ last = Did("event", "set_extra_data", "")
    /\ installed.turn = GroupsTurn
    /\ \E k \in 1..Len(state.blocks) :
           /\ state.blocks[k].index = 7 /\ state.blocks[k].kind = "unknown"
           /\ state.blocks[k].is_unknown /\ state.blocks[k].text = "{kindless}"
    /\ \E k \in 1..Len(state.blocks) :
           /\ state.blocks[k].index = 1 /\ state.blocks[k].kind = "mystery"
           /\ state.blocks[k].is_unknown /\ state.blocks[k].text = "{mystery}"
    /\ \E k \in 1..Len(state.blocks) :
           /\ state.blocks[k].index = 8 /\ state.blocks[k].is_unknown

\* a subagent_group block with an empty agents list and an empty text
EmptySubagent(b) ==
    /\ b.t = "object" /\ b.kind = JStr("subagent_group")
    /\ IsArray(b.agents) /\ b.agents.items = <<>>
    /\ b.text = JStr("")
\* the text of a field of a task, "" when the field is absent
ShownText(v) == IF IsString(v) THEN v.s ELSE ""
\* a background-task block every task of which has an empty command,
\* description, output preview and error
EmptyBackground(b) ==
    /\ b.t = "object" /\ b.kind \in {JStr("background_tasks"), JStr("bash_tasks")}
    /\ IsArray(b.tasks)
    /\ \A k \in 1..Len(b.tasks.items) :
           LET task == b.tasks.items[k] IN
           task.t = "object" =>
               /\ ShownText(task.command) = "" /\ ShownText(task.description) = ""
               /\ ShownText(task.outputPreview) = "" /\ ShownText(task.error) = ""

\* C15: no group is empty: every subagent group has an agent or a fallback
\* text, every background group has a task and each of its tasks has a command,
\* a description, an output preview or an error; and when every subagent
\* block (every background-task block) of the payload is an empty one, the
\* state has no subagent group (no background group) and the flag is false.
C15_EmptyGroupsSuppressed ==
    HasState =>
        /\ \A g \in 1..Len(state.subagent_groups) :
               \/ state.subagent_groups[g].agents # <<>>
               \/ state.subagent_groups[g].fallback_text # ""
        /\ \A g \in 1..Len(state.background_task_groups) :
               LET tasks == state.background_task_groups[g].tasks IN
               /\ tasks # <<>>
               /\ \A k \in 1..Len(tasks) :
                      \/ tasks[k].command # "" \/ tasks[k].description # ""
                      \/ tasks[k].has_output_preview \/ tasks[k].error # ""
        /\ (\A i \in 1..Len(InstalledBlocks) :
                (InstalledBlocks[i].t = "object"
                     /\ InstalledBlocks[i].kind = JStr("subagent_group"))
                    => EmptySubagent(InstalledBlocks[i]))
               => (state.subagent_groups = <<>> /\ ~state.has_subagent_groups)
        /\ (\A i \in 1..Len(InstalledBlocks) :
                (InstalledBlocks[i].t = "object"
                     /\ InstalledBlocks[i].kind
                            \in {JStr("background_tasks"), JStr("bash_tasks")})
                    => EmptyBackground(InstalledBlocks[i]))
               => (state.background_task_groups = <<>>
                       /\ ~state.has_background_tasks)

\* the widget was created from a turn whose only blocks are an empty subagent
\* group and a background-task block with one task that has nothing to show,
\* and the state has no group of either kind
C15_Witness ==
    /\ HasState
    /\ installed.turn = HollowTurn
    /\ EmptySubagent(InstalledBlocks[1]) /\ EmptyBackground(InstalledBlocks[2])
    /\ Len(InstalledBlocks[2].tasks.items) = 1
    /\ state.subagent_groups = <<>> /\ ~state.has_subagent_groups
    /\ state.background_task_groups = <<>> /\ ~state.has_background_tasks

\* C16: an empty subagent_group block of the payload renders nothing: the
\* state has no subagent group made of it and the flat block list has no
\* block with its index.
C16_EmptyGroupRendersNothing ==
    (HasState /\ ~InstalledWarned) =>
        \A i \in 1..Len(InstalledBlocks) :
            EmptySubagent(InstalledBlocks[i]) =>
                /\ (i - 1) \notin IndexesOf(state.blocks)
                /\ \A g \in 1..Len(state.subagent_groups) :
                       state.subagent_groups[g].agents # <<>>
                           \/ state.subagent_groups[g].fallback_text # ""

\* raw status texts, each with its trimmed form and the lower-case form of that
StatusSamples ==
    { <<"ok", "ok", "ok">>, <<"OK", "OK", "ok">>, <<"Ok", "Ok", "ok">>, <<"oK", "oK", "ok">>,
      <<" ok ", "ok", "ok">>,
      <<"success", "success", "success">>, <<"Success", "Success", "success">>,
      <<"Completed", "Completed", "completed">>, <<"COMPLETED", "COMPLETED", "completed">>,
      <<"completed", "completed", "completed">>, <<"complete", "complete", "complete">>,
      <<"error", "error", "error">>, <<"ERROR", "ERROR", "error">>,
      <<"Failed", "Failed", "failed">>, <<" Failed ", "Failed", "failed">>,
      <<"failed", "failed", "failed">>, <<"failure", "failure", "failure">>,
      <<"running", "running", "running">>, <<"RUNNING", "RUNNING", "running">>,
      <<"in_progress", "in_progress", "in_progress">>,
      <<"In-Progress", "In-Progress", "in-progress">>, <<"started", "started", "started">>,
      <<"pending", "pending", "pending">>, <<"Pending", "Pending", "pending">>,
      <<"queued", "queued", "queued">>, <<"queue", "queue", "queue">>,
      <<"aborted", "aborted", "aborted">>, <<"CANCELED", "CANCELED", "canceled">>,
      <<"cancelled", "cancelled", "cancelled">>,
      <<"wat", "wat", "wat">>, <<" wat", "wat", "wat">>, <<"Done", "Done", "done">>,
      <<"todo", "todo", "todo">>, <<"", "", "">>, <<" ", "", "">> }
OkSynonyms == {"ok", "success", "completed", "complete"}
ErrorSynonyms == {"error", "failed", "failure"}
RunningSynonyms == {"running", "in_progress", "in-progress", "started"}
PendingSynonyms == {"pending", "queued", "queue"}
AbortedSynonyms == {"aborted", "canceled", "cancelled"}
\* what a word outside every synonym set folds to
UnknownStatus(trimmed) ==
    [status |-> "unknown", label |-> IF trimmed = "" THEN "Unknown" ELSE trimmed]

\* every sample folds as its lower-case form calls for
StatusTableHolds ==
    \A x \in StatusSamples :
           LET sub == normalize_subagent_status(x[1])
               bg == normalize_background_task_status(x[1])
           IN /\ x[3] \in OkSynonyms => (sub.status = "ok" /\ bg.status = "ok")
              /\ x[3] \in ErrorSynonyms => (sub.status = "error" /\ bg.status = "error")
              /\ x[3] \notin (OkSynonyms \cup ErrorSynonyms \cup RunningSynonyms)
                    => sub = UnknownStatus(x[2])
              /\ x[3] \notin (OkSynonyms \cup ErrorSynonyms \cup RunningSynonyms
                                  \cup PendingSynonyms \cup AbortedSynonyms)
                    => bg = UnknownStatus(x[2])
\* C17: status folding is total, trimmed and case-insensitive: whatever the
\* casing and the surrounding blanks, ok/success/completed/complete fold to
\* ok and error/failed/failure to error, for subagents and for background
\* tasks; a text outside the synonym sets of the function folds to unknown
\* with the trimmed text as its label, or "Unknown" when that is empty; and
\* every agent and task of every state has a status of its enum.
C17_StatusFolding ==
    /\ StatusTableHolds
    /\ HasState =>
           /\ \A g \in 1..Len(state.subagent_groups) :
                  \A k \in 1..Len(state.subagent_groups[g].agents) :
                      state.subagent_groups[g].agents[k].status
                          \in {"ok", "error", "running", "unknown"}
           /\ \A g \in 1..Len(state.background_task_groups) :
                  \A k \in 1..Len(state.background_task_groups[g].tasks) :
                      state.background_task_groups[g].tasks[k].status
                          \in {"ok", "error", "running", "pending", "aborted", "unknown"}

\* a set_extra_data event has installed agents with the statuses "OK" and
\* " wat" and tasks with the statuses "queued" and "Failed": the first agent
\* is ok, the second unknown with the label "wat", and the task is error
C17_Witness ==
    /\ last = Did("event", "set_extra_data", "")
    /\ installed.turn = GroupsTurn
    /\ InstalledBlocks[1].agents.items[1].status = JStr("OK")
    /\ InstalledBlocks[1].agents.items[2].status = JStr(" wat")
    /\ InstalledBlocks[3].tasks.items[2].status = JStr("Failed")
    /\ Len(state.subagent_groups) = 1 /\ Len(state.background_task_groups) = 1
    /\ state.subagent_groups[1].agents[1].status = "ok"
    /\ state.subagent_groups[1].agents[1].status_label = "OK"
    /\ state.subagent_groups[1].agents[2].status = "unknown"
    /\ state.subagent_groups[1].agents[2].status_label = "wat"
    /\ state.background_task_groups[1].tasks[1].status = "error"
    /\ state.background_task_groups[1].tasks[1].status_label = "Error"

\* durations in milliseconds with the text each is shown as
DurationSamples ==
    { <<0, "0ms">>, <<1, "1ms">>, <<999, "999ms">>,
      <<1000, "1.0s">>, <<1500, "1.5s">>, <<9900, "9.9s">>,
      <<10000, "10s">>, <<10400, "10s">>, <<59000, "59s">>,
      <<60000, "1m 0s">>, <<61000, "1m 1s">>, <<125000, "2m 5s">> }
\* text is digits followed by "ms"
IsMsText(text, ms) == text = NatText(ms) \o "ms"

\* the subagent blocks of the payload that carry agents
InstalledSubagentBlocks ==
    SelectSeq(InstalledBlocks,
              LAMBDA b : /\ b.t = "object" /\ b.kind = JStr("subagent_group")
                         /\ IsArray(b.agents) /\ b.agents.items # <<>>)
\* the agent has a duration and nothing else that the meta line shows
OnlyDuration(agent) ==
    /\ IsNumber(agent.durationMs) /\ agent.toolCount = JUndef
    /\ agent.totalTokens = JUndef /\ agent.model = JUndef

\* every sample duration is shown as its text, tier by tier
DurationTableHolds ==
    /\ \A x \in DurationSamples : format_duration_ms(x[1]) = x[2]
    /\ \A ms \in 0..999 : IsMsText(format_duration_ms(ms), ms)
    /\ \A sec \in 10..59 : format_duration_ms(sec * 1000) = NatText(sec) \o "s"
    /\ \A sec \in 1..9 : format_duration_ms(sec * 1000) = NatText(sec) \o ".0s"
    /\ \A min \in 1..3 : \A sec \in 0..59 :
           format_duration_ms(min * 60000 + sec * 1000)
               = NatText(min) \o "m " \o NatText(sec) \o "s"
\* C18: a duration below 1000 ms is shown as "<n>ms", from 1000 below 10000
\* in seconds with one decimal, from 10000 below 60000 in whole seconds, and
\* from 60000 as "<m>m <s>s": 999 is "999ms", 1000 is "1.0s", 10000 is "10s",
\* 60000 is "1m 0s"; every duration below 1000 is its number with "ms"; and
\* the meta line of an agent that has only a duration is that text.
C18_DurationTiers ==
    /\ DurationTableHolds
    /\ (HasState /\ Len(state.subagent_groups) = Len(InstalledSubagentBlocks)) =>
           \A g \in 1..Len(state.subagent_groups) :
               LET raw == InstalledSubagentBlocks[g].agents.items
                   agents == state.subagent_groups[g].agents
               IN Len(agents) = Len(raw) =>
                      \A k \in 1..Len(agents) : \A x \in DurationSamples :
                          (OnlyDuration(raw[k]) /\ raw[k].durationMs = JNum(x[1]))
                              => agents[k].meta_line = x[2]

\* a set_extra_data event has installed an agent with one tool and a
\* duration of 999 ms and agents with durations of 1000, 10000 and 60000 ms,
\* and their meta lines show "999ms", "1.0s", "10s" and "1m 0s"
C18_Witness ==
    /\ last = Did("event", "set_extra_data", "")
    /\ installed.turn = GroupsTurn
    /\ InstalledBlocks[1].agents.items[1].durationMs = JNum(999)
    /\ InstalledBlocks[1].agents.items[3].durationMs = JNum(1000)
    /\ InstalledBlocks[1].agents.items[4].durationMs = JNum(10000)
    /\ InstalledBlocks[1].agents.items[5].durationMs = JNum(60000)
    /\ state.subagent_groups[1].agents[1].meta_line = "1 tool · 999ms"
    /\ state.subagent_groups[1].agents[3].meta_line = "1.0s"
    /\ state.subagent_groups[1].agents[4].meta_line = "10s"
    /\ state.subagent_groups[1].agents[5].meta_line = "1m 0s"

\* the state is the one normalize_extra_data has just built from the payload
JustInstalled ==
    \/ last.op = "activate" /\ last.branch = "normalize"
    \/ last = Did("event", "set_extra_data", "") /\ ~threw
\* the status of the state for a status text of the payload
StatusFor(v) == IF ToText(v) \in StatusEnum THEN ToText(v) ELSE "running"

\* C19: in the state built from a payload with a turn, each of title,
\* caption, status, tool, input and output is the one of the turn (title,
\* subtitle, status, tool.name, tool.argsText, output) whenever the turn has
\* the field, and is the v1 value only when the turn does not have it.
C19_V2Wins ==
    (HasState /\ JustInstalled /\ ~InstalledWarned /\ installed.turn.t = "object") =>
        LET turn == installed.turn IN
        /\ state.title = IF ~IsNullish(turn.title) THEN turn.title.s
                          ELSE Coalesce(installed.title, JStr("Agent output")).s
        /\ state.caption = IF ~IsNullish(turn.subtitle) THEN turn.subtitle.s
                            ELSE Coalesce(installed.caption, JStr("")).s
        /\ state.status = IF ~IsNullish(turn.status) THEN StatusFor(turn.status)
                           ELSE StatusFor(Coalesce(installed.status, JStr("running")))
        /\ state.tool = IF turn.tool.t = "object" /\ ~IsNullish(turn.tool.name)
                         THEN turn.tool.name.s
                         ELSE Coalesce(installed.tool, JStr("")).s
        /\ state.input = IF turn.tool.t = "object" /\ ~IsNullish(turn.tool.argsText)
                          THEN turn.tool.argsText.s
                          ELSE Coalesce(installed.input, JStr("")).s
        /\ state.output = IF ~IsNullish(turn.output) THEN turn.output.s
                           ELSE Coalesce(installed.output, JStr("")).s

\* the last step was a render(): the one activate ends with or the one that
\* follows the loop of handle_events
JustRendered == last.op = "render" \/ (last.op = "activate" /\ last.branch = "normalize")

PendingRunningTableHolds ==
    \A x \in StatusSamples :
        LET sub == normalize_subagent_status(x[1])
            bg == normalize_background_task_status(x[1])
            plan == normalize_plan_step_status(x[1])
        IN /\ x[3] \in PendingSynonyms =>
                 /\ sub.status = "pending" /\ sub.label = "Pending"
                 /\ bg.status = "pending" /\ bg.label = "Pending"
                 /\ plan.status = "pending" /\ plan.label = "Todo"
           /\ x[3] \in RunningSynonyms =>
                 /\ sub.status = "running" /\ bg.status = "running"
                 /\ plan.status = "running"

\* C24: the normalizers of subagents, background tasks and plan steps alike
\* fold every casing of pending/queued/queue to pending (label Pending, Todo
\* for a plan step) and every casing of running/in_progress/in-progress/
\* started to running, and no agent installed with such a status is unknown.
C24_PendingRunningFolded ==
    /\ PendingRunningTableHolds
    /\ (HasState /\ Len(state.subagent_groups) = Len(InstalledSubagentBlocks)) =>
           \A g \in 1..Len(state.subagent_groups) :
               LET raw == InstalledSubagentBlocks[g].agents.items
                   agents == state.subagent_groups[g].agents
               IN Len(agents) = Len(raw) =>
                      \A k \in 1..Len(agents) : \A x \in StatusSamples :
                          (raw[k].status = JStr(x[1])
                               /\ x[3] \in PendingSynonyms \cup RunningSynonyms)
                              => agents[k].status # "unknown"

\* the title of a section: the title of its only group when that is not blank,
\* the fixed label otherwise
TitleOfSection(title, groups, label) ==
    /\ (Len(groups) = 1 /\ Trim(groups[1].title) # "") => title = groups[1].title
    /\ (Len(groups) = 1 /\ Trim(groups[1].title) = "") => title = label
    /\ Len(groups) # 1 => title = label

\* C25: the title of each of the four sections is the title of the group when
\* there is exactly one group and its title is not blank, and is "Subagents",
\* "Background tasks", "Plan" or "Todo" when there is no group, when there are
\* several, or when the only group has a blank title.
C25_SectionTitles ==
    HasState =>
        /\ TitleOfSection(state.subagent_section_title, state.subagent_groups, "Subagents")
        /\ TitleOfSection(state.background_tasks_section_title,
                          state.background_task_groups, "Background tasks")
        /\ TitleOfSection(state.plan_section_title, state.plan_groups, "Plan")
        /\ TitleOfSection(state.todo_section_title, state.todo_groups, "Todo")

\* the widget was created from a turn with two titled subagent groups, one
\* background group with a blank title, one plan group titled "Steps" and two
\* todo groups: only the plan section has the title of its group
C25_Witness ==
    /\ HasState
    /\ installed.turn = TwinsTurn
    /\ Len(state.subagent_groups) = 2
    /\ state.subagent_groups[1].title = "Team" /\ state.subagent_groups[2].title = "Crew"
    /\ state.subagent_section_title = "Subagents"
    /\ Len(state.background_task_groups) = 1
    /\ state.background_task_groups[1].title = " "
    /\ state.background_tasks_section_title = "Background tasks"
    /\ Len(state.plan_groups) = 1 /\ state.plan_groups[1].title = "Steps"
    /\ state.plan_section_title = "Steps"
    /\ Len(state.todo_groups) = 2 /\ state.todo_groups[2].title = "Later"
    /\ state.todo_section_title = "Todo"

\* the value of a number is above zero
IsPositive(v) == v.n > 0 \/ (v.n = 0 /\ v.s = "half")
\* used and limit of the block are numbers and limit is above zero
HasUsage(b) == IsNumber(b.used) /\ IsNumber(b.limit) /\ IsPositive(b.limit)

\* C26: the percent of every flat block is within 0..100; a flat block has a
\* percent only when it came from a context_usage block whose used and limit
\* are numbers with limit above zero, a used below zero giving 0 and a used
\* above limit giving 100; and a flat block without a percent has percent 0
\* and, when it came from a context_usage block, the text of the block or
\* the stringified block as its text.
C26_ContextUsagePercent ==
    HasState =>
        \A k \in 1..Len(state.blocks) :
            LET flat == state.blocks[k] IN
            /\ flat.context_usage_percent \in 0..100
            /\ flat.has_context_usage_percent => flat.kind = "context_usage"
            /\ ~flat.has_context_usage_percent => flat.context_usage_percent = 0
            /\ (~InstalledWarned /\ flat.index < Len(InstalledBlocks)) =>
                   LET b == InstalledBlocks[flat.index + 1] IN
                   /\ flat.has_context_usage_percent
                          <=> (b.kind = JStr("context_usage") /\ HasUsage(b))
                   /\ (flat.has_context_usage_percent /\ b.used.n < 0)
                          => flat.context_usage_percent = 0
                   /\ (flat.has_context_usage_percent /\ b.used.n > b.limit.n)
                          => flat.context_usage_percent = 100
                   /\ (b.kind = JStr("context_usage") /\ ~HasUsage(b))
                          => flat.text = IF IsString(b.text) THEN b.text.s ELSE b.raw

\* the widget was created from a turn with context_usage blocks of 50 of 200,
\* -5 of 10, 300 of 200, 5 of 0 with the text "n/a", and "many" of 10: the
\* percents are 25, 0 and 100, and the last two have no percent
C26_Witness ==
    /\ HasState
    /\ installed.turn = TwinsTurn
    /\ \E k \in 1..Len(state.blocks) :
           /\ state.blocks[k].index = 7 /\ state.blocks[k].has_context_usage_percent
           /\ state.blocks[k].context_usage_percent = 25
           /\ state.blocks[k].text = "50/200 tokens"
    /\ \E k \in 1..Len(state.blocks) :
           /\ state.blocks[k].index = 8 /\ state.blocks[k].has_context_usage_percent
           /\ state.blocks[k].context_usage_percent = 0
    /\ \E k \in 1..Len(state.blocks) :
           /\ state.blocks[k].index = 9 /\ state.blocks[k].has_context_usage_percent
           /\ state.blocks[k].context_usage_percent = 100
    /\ \E k \in 1..Len(state.blocks) :
           /\ state.blocks[k].index = 10 /\ ~state.blocks[k].has_context_usage_percent
           /\ state.blocks[k].context_usage_percent = 0 /\ state.blocks[k].text = "n/a"
    /\ \E k \in 1..Len(state.blocks) :
           /\ state.blocks[k].index = 11 /\ ~state.blocks[k].has_context_usage_percent
           /\ state.blocks[k].text = "{many}"

\* the positions of the steps of a structured plan block that are not blank
KeptSteps(b) ==
    SelectSeq(Positions(b.steps.items), LAMBDA p : Trim(b.steps.items[p].step.s) # "")
\* the texts of a legacy plan block that are not blank, trimmed
KeptItems(b) ==
    SelectSeq([p \in 1..Len(b.items.items) |->
                  IF IsString(b.items.items[p]) THEN Trim(b.items.items[p].s) ELSE ""],
              LAMBDA text : text # "")
\* the block is a structured plan block
StructuredPlan(b) == sp_ai_plan_v2_block_schema(b)
\* the block is a legacy plan block
LegacyPlan(b) ==
    b.t = "object" /\ ~StructuredPlan(b) /\ b.kind = JStr("plan") /\ IsArray(b.items)
\* the plan blocks of the payload that have a step to show, in their order
InstalledPlanBlocks ==
    SelectSeq(InstalledBlocks,
              LAMBDA b : \/ StructuredPlan(b) /\ KeptSteps(b) # <<>>
                         \/ LegacyPlan(b) /\ KeptItems(b) # <<>>)

\* C27: the steps of a plan group are the steps of its plan block that are
\* not blank after trimming, trimmed, in the order of the block and with the
\* position each had in it; a plan block without such a step gives no plan
\* group; has_plan_blocks is true exactly when a plan block of the payload
\* has a step that is not blank.
C27_PlanStepsFiltered ==
    HasState =>
        /\ Len(state.plan_groups) = Len(InstalledPlanBlocks)
        /\ state.has_plan_blocks <=> InstalledPlanBlocks # <<>>
        /\ \A g \in 1..Len(state.plan_groups) :
               LET b == InstalledPlanBlocks[g]
                   steps == state.plan_groups[g].steps
               IN /\ steps # <<>>
                  /\ \A k \in 1..Len(steps) : steps[k].step # ""
                  /\ StructuredPlan(b) =>
                         /\ Len(steps) = Len(KeptSteps(b))
                         /\ \A k \in 1..Len(steps) :
                                /\ steps[k].step_index = KeptSteps(b)[k] - 1
                                /\ steps[k].step
                                       = Trim(b.steps.items[KeptSteps(b)[k]].step.s)
                  /\ LegacyPlan(b) =>
                         /\ Len(steps) = Len(KeptItems(b))
                         /\ \A k \in 1..Len(steps) : steps[k].step = KeptItems(b)[k]

\* a set_extra_data event has installed a turn with a plan block whose steps
\* are " s1 ", " " and "s2" and a legacy plan block: the first group has the
\* steps "s1" and "s2" with the positions 0 and 2, and the flag is true
C27_Witness ==
    /\ last = Did("event", "set_extra_data", "")
    /\ installed.turn = GroupsTurn
    /\ InstalledBlocks[4].steps.items[2].step = JStr(" ")
    /\ state.has_plan_blocks
    /\ Len(state.plan_groups) = 2
    /\ Len(state.plan_groups[1].steps) = 2
    /\ state.plan_groups[1].steps[1].step = "s1"
    /\ state.plan_groups[1].steps[1].step_index = 0
    /\ state.plan_groups[1].steps[2].step = "s2"
    /\ state.plan_groups[1].steps[2].step_index = 2
    /\ state.plan_groups[2].steps[1].step = "s1"

\* C28: after creation and after any events, each of has_subagent_groups,
\* has_background_tasks, has_plan_blocks and has_todo_blocks is true exactly
\* when the list it summarises (subagent_groups, background_task_groups,
\* plan_groups, todo_groups) is non-empty.
C28_FlagsAgree ==
    HasState =>
        /\ state.has_subagent_groups <=> state.subagent_groups # <<>>
        /\ state.has_background_tasks <=> state.background_task_groups # <<>>
        /\ state.has_plan_blocks <=> state.plan_groups # <<>>
        /\ state.has_todo_blocks <=> state.todo_groups # <<>>

\* a set_status event folded into a state that holds groups of all four kinds
C28_Witness ==
    /\ HasState
    /\ last = Did("event", "set_status", "")
    /\ state.has_subagent_groups /\ state.subagent_groups # <<>>
    /\ state.has_background_tasks /\ state.background_task_groups # <<>>
    /\ state.has_plan_blocks /\ state.plan_groups # <<>>
    /\ state.has_todo_blocks /\ state.todo_groups # <<>>

\* C29: after creation and after any events, including a set_extra_data whose
\* payload names a kind or a status the widget does not know, state.status is
\* one of the eight statuses and state.kind one of the ten kinds.
C29_StatusAndKindInEnum ==
    HasState => state.status \in StatusEnum /\ state.kind \in KindEnum

\* a set_extra_data whose turn has kind "weird" and status "bogus" was folded
C29_Witness ==
    /\ HasState
    /\ last = Did("event", "set_extra_data", "")
    /\ ~threw
    /\ installed.t = "object" /\ installed.turn.t = "object"
    /\ installed.turn.kind = JStr("weird")
    /\ installed.turn.status = JStr("bogus")
    /\ state.kind = "final"
    /\ state.status = "running"

\* the ways of cutting a batch into consecutive non-empty batches
RECURSIVE Splits(_)
Splits(events) ==
    IF events = <<>> THEN {<<>>}
    ELSE UNION {{<<SubSeq(events, 1, k)>> \o rest :
                    rest \in Splits(SubSeq(events, k + 1, Len(events)))} :
                k \in 1..Len(events)}

\* events the schema accepts, one of them a set_extra_data that carries null
BatchEvents ==
    {SetExtraData(NotExtraData("null")), SetExtraData(V1Payload),
     SetStatus(JStr("ok")), AppendOutput(JStr("a"))}

\* the batches of up to MaxBatch of these events
SampleBatches == UNION {[1..n -> BatchEvents] : n \in 0..MaxBatch}

\* the events of a batch for which the reducer returns
NoneThrows(events) ==
    \A k \in 1..Len(events) : events[k] # SetExtraData(NotExtraData("null"))

\* C30: the state after a batch of events does not depend on how the host
\* cut it into calls: one call with the whole batch, one call per event and
\* any other split into consecutive calls leave the same state.
C30_BatchingIrrelevant ==
    (HasState /\ pc = "idle") =>
        \A events \in SampleBatches :
            \A calls \in Splits(events) :
                Delivered(state, calls) = handle_events(state, events)

\* the same for the batches in which no event makes the reducer throw
C30_BatchingIrrelevantWithoutThrow ==
    (HasState /\ pc = "idle") =>
        \A events \in {b \in SampleBatches : NoneThrows(b)} :
            \A calls \in Splits(events) :
                Delivered(state, calls) = handle_events(state, events)

\* the four actions the widget forwards to the host
ForwardedActions == {"abort", "retry", "approve", "deny"}

\* C21: a click on an action button calls the host callback exactly once with
\* {type: "action", action} when data-action is abort, retry, approve or deny,
\* emits nothing for any other data-action value, and leaves the widget state
\* unchanged.
C21_ClickEmitsOneAction ==
    [][last'.op = "click" =>
          /\ sent' = IF last'.branch \in ForwardedActions
                     THEN <<[type |-> "action", action |-> last'.branch]>>
                     ELSE <<>>
          /\ state' = state
          /\ UNCHANGED widget_vars]_vars

\* a click on the approve button has passed one approve message to the host
C21_Witness ==
    /\ last = Did("click", "approve", "")
    /\ painted.show_approve
    /\ sent = <<[type |-> "action", action |-> "approve"]>>
    /\ Len(sent) = 1

\* the last step was made by a highlighting pass
\* C22: the first failure of a highlighting pass sets the error flag on the
\* root, no later step (no render either) clears it, and every call of
\* apply_sp_ai_highlighting made on that root while it is set returns without
\* starting a pass and so without touching a node.
C22_FailureDisablesHighlighting ==
    [][/\ (last'.op \in {"pass", "stale_pass"} /\ last'.branch = "throw") => flag'
       /\ flag => flag'
       /\ (flag /\ last'.op = "render") =>
              /\ passes' = passes
              /\ marked' = marked
              /\ Len(mounts') = Len(mounts) + 1]_vars

\* a render() on a root that carries the flag: a new subtree with a code node
\* is mounted, no pass runs and none of its nodes is highlighted
C22_Witness ==
    /\ flag
    /\ last = Did("render", "", "")
    /\ Len(mounts) >= 2
    /\ mounts[Len(mounts)] = <<"code", "md">>
    /\ passes = <<>>
    /\ \A k \in 1..2 : <<Len(mounts), k>> \notin marked

\* the nodes of the subtree mounted now that are highlighted
MarkedNow(m, ms) == {node \in m : node[1] = Len(ms)}

\* C23: a step of a highlighting pass started for an earlier render, taken
\* after a later render replaced the subtree, changes neither the widget
\* state nor a node or attribute of the subtree mounted now, its ability to be
\* highlighted (the error flag of the root) included.
C23_StalePassHarmless ==
    [][last'.op = "stale_pass" =>
          /\ state' = state
          /\ flag' = flag
          /\ MarkedNow(marked', mounts') = MarkedNow(marked, mounts)]_vars

\* the part of it about the widget: no step of a pass changes a variable of
\* the widget
C23_PassLeavesWidgetState ==
    [][last'.op \in {"pass", "stale_pass"} => UNCHANGED widget_vars]_vars

\* Math.floor(seconds / 60) and Math.round(seconds % 60) of format_duration_ms,
\* the two numbers of "<m>m <s>s"
MinutesOf(duration_ms) == duration_ms \div 60000
RemSecondsOf(duration_ms) == ((duration_ms % 60000) * 2 + 1000) \div 2000
\* the duration rounded to the nearest second
NearestSecond(duration_ms) == (duration_ms * 2 + 1000) \div 2000

\* durations from one to three minutes, every half second and around each
DurationsFromAMinute ==
    {60000 + 500 * k + d : k \in 0..240, d \in {0, 1, 499}}

\* whole runtimes of a minute and more
RuntimesFromAMinute == 60..240

\* the text of every such duration is "<m>m <s>s" of its two numbers, the
\* seconds are below 60 and the numbers add up to the rounded duration
MinuteTableHolds ==
    /\ \A ms \in DurationsFromAMinute :
           /\ format_duration_ms(ms)
                  = NatText(MinutesOf(ms)) \o "m " \o NatText(RemSecondsOf(ms)) \o "s"
           /\ RemSecondsOf(ms) \in 0..59
           /\ MinutesOf(ms) * 60 + RemSecondsOf(ms) = NearestSecond(ms)
    /\ \A sec \in RuntimesFromAMinute :
           /\ format_runtime_sec(sec)
                  = NatText(sec \div 60) \o "m " \o NatText(sec % 60) \o "s"
           /\ sec % 60 \in 0..59

\* the texts "<m>m <s>s" with s below 60, for up to three minutes
ProperMinuteTexts ==
    {NatText(m) \o "m " \o NatText(s) \o "s" : m \in 1..3, s \in 0..59}

\* C31: for every whole duration of at least 60000 ms the seconds of the
\* "<m>m <s>s" text of format_duration_ms lie in 0..59 and minutes * 60 +
\* seconds is the duration rounded to the nearest second (the same for
\* format_runtime_sec from 60 seconds), so the meta line of an agent that has
\* only such a duration shows seconds below 60.
C31_SecondsBelowSixty ==
    /\ MinuteTableHolds
    /\ (HasState /\ Len(state.subagent_groups) = Len(InstalledSubagentBlocks)) =>
           \A g \in 1..Len(state.subagent_groups) :
               LET raw == InstalledSubagentBlocks[g].agents.items
                   agents == state.subagent_groups[g].agents
               IN Len(agents) = Len(raw) =>
                      \A k \in 1..Len(agents) :
                          (OnlyDuration(raw[k]) /\ raw[k].durationMs.n \in 60000..180000)
                              => agents[k].meta_line \in ProperMinuteTexts

\* the same table without the durations whose seconds round up to 60
MinuteTableHoldsElsewhere ==
    /\ \A ms \in {x \in DurationsFromAMinute : x % 60000 < 59500} :
           /\ format_duration_ms(ms)
                  = NatText(MinutesOf(ms)) \o "m " \o NatText(RemSecondsOf(ms)) \o "s"
           /\ RemSecondsOf(ms) \in 0..59
           /\ MinutesOf(ms) * 60 + RemSecondsOf(ms) = NearestSecond(ms)
    /\ \A sec \in RuntimesFromAMinute :
           /\ format_runtime_sec(sec)
                  = NatText(sec \div 60) \o "m " \o NatText(sec % 60) \o "s"
           /\ sec % 60 \in 0..59

\* the statement holds for every other duration
C31_SecondsBelowSixtyElsewhere == MinuteTableHoldsElsewhere /\ pc \in STRING

\* C32: a widget activated with extra_data null logs an error, never renders
\* and gets a handler that ignores every call: after any number of calls it
\* has no state, has rendered nothing and has passed nothing to the host.
C32_NullWidgetStaysInert ==
    /\ (installed.t = "null") <=> (pc = "inert")
    /\ (last.op = "activate" /\ pc = "inert") => last = Did("activate", "null", "error")
    /\ pc = "inert" =>
           /\ state = NoState
           /\ renders = 0
           /\ painted = NotPainted
           /\ sent = <<>>
           /\ last.op \in {"activate", "noop"}

\* the handler of a widget activated with null has been called with a
\* well-formed set_extra_data and nothing has come of it
C32_Witness ==
    /\ pc = "inert"
    /\ installed.t = "null"
    /\ last = Did("noop", "set_extra_data", "")
    /\ state = NoState
    /\ renders = 0
    /\ painted = NotPainted

\* the groups are numbered 0, 1, ... in their order
GroupsNumbered(groups) ==
    \A i \in 1..Len(groups) : groups[i].group_index = i - 1

\* the numbers of the members of a group are naturals that grow strictly
Increasing(numbers) ==
    /\ \A j \in 1..Len(numbers) : numbers[j] \in Nat
    /\ \A j \in 1..Len(numbers) - 1 : numbers[j] < numbers[j + 1]

\* the tasks of the state that carry the pair <<g, t>>, as <<group, task>>
\* positions
TasksAt(g, t) ==
    {p \in UNION {{<<i, j>> : j \in 1..Len(state.background_task_groups[i].tasks)} :
                     i \in 1..Len(state.background_task_groups)} :
        /\ state.background_task_groups[p[1]].group_index = g
        /\ state.background_task_groups[p[1]].tasks[p[2]].task_index = t}

\* C33: in every state the background task groups are numbered 0..n-1 in
\* block order and the task_index values of a group grow strictly, so a pair
\* of group_index and task_index names at most one task and a click on the
\* copy button that carries the pair copies the command of that task (and
\* nothing when the pair names none); plan groups with step_index and todo
\* groups with item_index are numbered the same way.
C33_IndexesIdentifyTasks ==
    HasState =>
        /\ GroupsNumbered(state.background_task_groups)
        /\ GroupsNumbered(state.plan_groups)
        /\ GroupsNumbered(state.todo_groups)
        /\ \A i \in 1..Len(state.background_task_groups) :
               LET tasks == state.background_task_groups[i].tasks
               IN Increasing([j \in 1..Len(tasks) |-> tasks[j].task_index])
        /\ \A i \in 1..Len(state.plan_groups) :
               LET steps == state.plan_groups[i].steps
               IN Increasing([j \in 1..Len(steps) |-> steps[j].step_index])
        /\ \A i \in 1..Len(state.todo_groups) :
               LET items == state.todo_groups[i].items
               IN Increasing([j \in 1..Len(items) |-> items[j].item_index])
        /\ \A g \in 0..3, t \in 0..3 : Cardinality(TasksAt(g, t)) <= 1
        /\ last.op = "copy" =>
               LET g == ParseInt(copied.group)
                   t == ParseInt(copied.task)
                   named == IF IsInteger(g) /\ IsInteger(t) THEN TasksAt(g.n, t.n) ELSE {}
               IN copied.text =
                      IF named = {} THEN <<>>
                      ELSE LET p == CHOOSE p \in named : TRUE
                           IN <<state.background_task_groups[p[1]].tasks[p[2]].command>>

\* the button of the second group's fourth task (the third was dropped) was
\* clicked and its command copied
C33_Witness ==
    /\ HasState
    /\ last = Did("copy", "1:3", "")
    /\ Len(state.background_task_groups) = 2
    /\ Len(state.background_task_groups[2].tasks) = 3
    /\ state.background_task_groups[2].tasks[3].task_index = 3
    /\ state.background_task_groups[1].tasks[1].task_index = 1
    /\ copied.text = <<"make">>

(***************************************************************************)
(* Location memory                                                         *)
(***************************************************************************)
\* every load request has been answered, and an answer was the last step
LoadsAnswered ==
    /\ mem.gets = <<>>
    /\ mem.loads >= 2
    /\ last.op \in {"load_ok", "load_failed"}

\* save_memory has just posted, with no load request unanswered
SavedAfterLoads ==
    /\ mem.gets = <<>>
    /\ last = Did("save", "post", "")

ServerTexts == {ServerText(c) : c \in Contexts}

\* C34: once the responses to all loads have arrived, the textarea holds
\* the text the current context was answered with, whichever response came
\* last, and a save_memory that follows does not post the text of one
\* context under the scope of another.
C34_LoadsNotConfused ==
    /\ LoadsAnswered => mem.textarea = mem.answer[mem.current_context]
    /\ SavedAfterLoads =>
          LET p == mem.posts[Len(mem.posts)]
          IN p.text \in ServerTexts => p.text = ServerText(p.scope)

\* a step that is a call of save_memory
SaveCalled == last'.op = "save"

\* C35: at most one save request is unanswered at a time and is_saving tells
\* whether there is one; save_memory called while is_saving sends nothing
\* and changes nothing; save_memory called with no current context sends
\* nothing and reports a client error; any other save_memory sends one
\* request; both completions of the request reset is_saving.
C35_OneSaveInFlight ==
    [][ /\ Len(mem'.posts) <= 1
        /\ mem'.is_saving <=> mem'.posts # <<>>
        /\ (SaveCalled /\ mem.current_context = "") =>
              /\ mem' = [mem EXCEPT !.error = "client"]
              /\ last'.logged = "error"
        /\ (SaveCalled /\ mem.current_context # "" /\ mem.is_saving) =>
              mem' = mem
        /\ (SaveCalled /\ mem.current_context # "" /\ ~mem.is_saving) =>
              /\ mem'.posts = <<[scope |-> mem.current_context,
                                 text |-> mem.textarea]>>
              /\ mem'.is_saving
        /\ last'.op \in {"save_ok", "save_failed"} =>
              /\ mem.is_saving
              /\ ~mem'.is_saving
              /\ mem'.posts = <<>> ]_vars

\* save_memory was called while a save request was unanswered, after the
\* first response to a load had enabled the button again
C35_Witness ==
    /\ last = Did("save", "busy", "")
    /\ mem.is_saving
    /\ ~mem.button_disabled
    /\ Len(mem.posts) = 1

(***************************************************************************)
(* The requests with a fallback                                            *)
(***************************************************************************)
\* the function was called with a list that is not empty
FbCalled == fb.kind # "none" /\ fb.given # <<>>

\* the requests went to the URLs of the list in its order, each with the
\* data of the call, and every request but the last was answered with 404
TriedInOrder ==
    /\ Len(fb.requests) <= Len(fb.given)
    /\ \A i \in 1..Len(fb.requests) :
          /\ fb.requests[i].url = fb.given[i]
          /\ fb.requests[i].data = fb.data
    /\ Len(fb.answers) = Len(fb.requests) - (IF fb.open THEN 1 ELSE 0)
    /\ \A i \in 1..(Len(fb.requests) - 1) : fb.answers[i] = 404

\* the callback that is due after the answers so far: none while a request
\* is unanswered
CallbackDue ==
    IF fb.open THEN <<>>
    ELSE LET n == Len(fb.answers)
         IN IF fb.answers[n] = 200 THEN <<"on_success">> ELSE <<"on_error">>

\* C36: called with a list that is not empty, post_with_fallback and
\* archive_with_fallback try the URLs in the order of the list, go on to the
\* next only after a 404 while one remains, and come to an end with exactly
\* one callback invoked exactly once: on_success after the first success,
\* on_error after the first failure that is no 404 or the failure of the
\* last URL.
C36_FallbackInOrder ==
    /\ [](FbCalled =>
            /\ TriedInOrder
            /\ fb.calls = CallbackDue
            /\ (~fb.open /\ fb.answers[Len(fb.answers)] = 404) =>
                   Len(fb.answers) = Len(fb.given))
    /\ (FbCalled ~> (~fb.open /\ Len(fb.calls) = 1))

\* the third URL of a list was tried after two answers of 404 and failed
\* with 404 as well: on_error was invoked once
C36_Witness ==
    /\ FbCalled
    /\ fb.answers = <<404, 404, 404>>
    /\ fb.calls = <<"on_error">>
    /\ ~fb.open

(***************************************************************************)
(* The buttons of the agents overlay                                       *)
(***************************************************************************)
\* the request of handler h that holds the button now in the page
Awaited(h) ==
    \E i \in 1..Len(overlay.requests) :
        overlay.requests[i] = [handler |-> h, attached |-> TRUE]

\* C37: in the open overlay a button a handler has disabled is enabled
\* again after an early return for a missing id or an empty field, after
\* the success and after the error of the request, unless a list reload
\* replaces it: a button in the page is disabled only while its request is
\* unanswered.
C37_ButtonsComeBack ==
    \A h \in Handlers :
        (overlay.overlay_is_open /\ overlay.disabled[h]) => Awaited(h)

(***************************************************************************)
(* The agents of the list                                                  *)
(***************************************************************************)
\* an id that is a number or a string that is not empty
IsAgentId(id) == IsNumber(id) \/ (IsString(id) /\ id.s # "")

\* the entries of the response last received
EntriesReceived ==
    IF IsArray(listing.data.agents) THEN listing.data.agents.items
    ELSE listing.data.items

\* the entries that are objects with an id
EntriesWithId ==
    SelectSeq(EntriesReceived, LAMBDA a : a.t = "object" /\ IsAgentId(a.id))

\* C38: every agent extract_agents returns has an id that is a number or a
\* string that is not empty and a name that is a string, "(unnamed)" where
\* the entry had no string name; the agents are the object entries with
\* such an id, in their order, the others being filtered out; a response
\* that is no array and no object with an agents array gives no agent.
C38_AgentsWellFormed ==
    listing.answered =>
        /\ \A i \in 1..Len(listing.agents) :
              /\ IsAgentId(listing.agents[i].id)
              /\ IsString(listing.agents[i].name)
        /\ Len(listing.agents) = Len(EntriesWithId)
        /\ \A i \in 1..Len(EntriesWithId) :
              i <= Len(listing.agents) =>
                 /\ listing.agents[i].id = EntriesWithId[i].id
                 /\ listing.agents[i].name =
                       IF IsString(EntriesWithId[i].name)
                       THEN EntriesWithId[i].name ELSE JStr("(unnamed)")

====
